---- MODULE Spec2Model ----
(***************************************************************************)
(* gorelease (cmd/gorelease/gorelease.go): the report model, the version   *)
(* policy (validateVersion, suggestVersion, isSuccessful, Text) and the    *)
(* package merge loop of makeReleaseReport.                                *)
(*                                                                         *)
(* A Go string is a sequence of byte values.  A package path is the        *)
(* sequence of path elements below the module path (<<>> is the package in *)
(* the module's root directory).                                           *)
(*                                                                         *)
(* Spec, SpecPolicy, SpecFirst, SpecBase, SpecSub, SpecLoad and SpecInputs *)
(* run runRelease on different sets of flags, tags, module paths,          *)
(* directories and snapshots; SpecReport and SpecDecimal call              *)
(* report.addPackage and incDecimal on their own; SpecDiff is the          *)
(* comparison of a recursive type by apidiff, SpecUnzip one call of Unzip, *)
(* SpecEarly the package merge loop of the earliest runRelease.            *)
(***************************************************************************)
EXTENDS Integers, Sequences, FiniteSets, TLC

VARIABLES
    pc,             \* where runRelease / makeReleaseReport stands
    baseFlag,       \* -base
    releaseFlag,    \* -version
    modPath,        \* the module path of go.mod at HEAD
    tags,           \* the version tags reachable from HEAD
    err,            \* the error makeReleaseReport returned, "" for none
    baseVersion,    \* makeReleaseReport's baseVersion (flag or detected)
    shouldCompare,
    oldPkgs, newPkgs, oldIndex, newIndex,
    r,              \* the report
    summary,        \* what report.Text wrote last
    exitStatus,
    goModFound,     \* findModuleRoot finds a go.mod
    pendingChanges, \* git status --porcelain prints something
    codeDir,        \* the directory of go.mod below the repository root
    checkouts,      \* the revisions checkoutAndLoad was called for, in order
    decimalIn,      \* the argument of a call of incDecimal
    digitsOut,      \* what that call returned
    differ,         \* the state of one call of apidiff.Changes
    unzip           \* the state of one call of Unzip

\* The working tree runRelease runs in.
envVars == <<goModFound, pendingChanges, codeDir>>

\* The argument and the result of a function called on its own.
unitVars == <<decimalIn, digitsOut, differ, unzip>>

vars == <<pc, baseFlag, releaseFlag, modPath, tags, err, baseVersion,
          shouldCompare, oldPkgs, newPkgs, oldIndex, newIndex, r,
          summary, exitStatus, goModFound, pendingChanges, codeDir, checkouts,
          decimalIn, digitsOut, differ, unzip>>

(***************************************************************************)
(* Bytes and strings                                                       *)
(***************************************************************************)
\* The bytes the code names: '+', '-', '.', '/', '0', '9', 'v'.
chPlus == 43

chDash == 45

chDot == 46

chSlash == 47

ch0 == 48

ch1 == 49

ch9 == 57

chV == 118

Letters == <<"a", "b", "c", "d", "e", "f", "g", "h", "i", "j", "k", "l", "m",
             "n", "o", "p", "q", "r", "s", "t", "u", "v", "w", "x", "y", "z">>

DigitChars == <<"0", "1", "2", "3", "4", "5", "6", "7", "8", "9">>

\* The ASCII code of a one-character string.
Code(c) ==
    IF c = "+" THEN chPlus
    ELSE IF c = "-" THEN chDash
    ELSE IF c = "." THEN chDot
    ELSE IF c = "/" THEN chSlash
    ELSE IF \E i \in 1..10 : DigitChars[i] = c
         THEN ch0 - 1 + (CHOOSE i \in 1..10 : DigitChars[i] = c)
    ELSE 96 + (CHOOSE i \in 1..26 : Letters[i] = c)

\* The Go string spelled by a tuple of one-character strings.
B(s) == [i \in 1..Len(s) |-> Code(s[i])]

\* The value a panicking call leaves instead of a string.
Panic == <<-1>>

IsDigit(b) == ch0 <= b /\ b <= ch9

\* s[lo:hi] of Go (zero-based, hi exclusive), for 0 <= lo <= hi <= len(s).
Slice(s, lo, hi) == SubSeq(s, lo + 1, hi)

HasPrefix(s, p) == Len(s) >= Len(p) /\ SubSeq(s, 1, Len(p)) = p

HasSuffix(s, p) == Len(s) >= Len(p) /\ SubSeq(s, Len(s) - Len(p) + 1, Len(s)) = p

\* strings.IndexByte: the zero-based index of the first b in s, or -1.
IndexByte(s, b) ==
    IF \E i \in 1..Len(s) : s[i] = b
    THEN (CHOOSE i \in 1..Len(s) : s[i] = b /\ \A j \in 1..(i - 1) : s[j] # b) - 1
    ELSE -1

\* The zero-based index of the first b in s, Len(s) when there is none.
IndexOrEnd(s, b) == IF \E i \in 1..Len(s) : s[i] = b THEN IndexByte(s, b) ELSE Len(s)

\* strings.Split(s, sep) for a one-byte separator: never empty.
RECURSIVE Split(_, _)
Split(s, b) ==
    IF \A i \in 1..Len(s) : s[i] # b THEN <<s>>
    ELSE <<Slice(s, 0, IndexOrEnd(s, b))>>
         \o Split(Slice(s, IndexOrEnd(s, b) + 1, Len(s)), b)

\* The bytewise order of Go's < on strings.
RECURSIVE StrLess(_, _)
StrLess(x, y) ==
    IF y = <<>> THEN FALSE
    ELSE IF x = <<>> THEN TRUE
    ELSE IF Head(x) # Head(y) THEN Head(x) < Head(y)
    ELSE StrLess(Tail(x), Tail(y))

(***************************************************************************)
(* golang.org/x/mod/semver, as gorelease uses it                           *)
(***************************************************************************)
\* The number of bytes of the longest prefix of v made of decimal digits.
DigitRun(v) ==
    CHOOSE i \in 0..Len(v) :
        /\ \A j \in 1..i : IsDigit(v[j])
        /\ (i = Len(v) \/ ~IsDigit(v[i + 1]))

IsNum(v) == \A j \in 1..Len(v) : IsDigit(v[j])

IsBadNum(v) == IsNum(v) /\ Len(v) > 1 /\ v[1] = ch0

IsIdentChar(b) ==
    \/ (65 <= b /\ b <= 90)
    \/ (97 <= b /\ b <= 122)
    \/ IsDigit(b)
    \/ b = chDash

NoPart == [ok |-> FALSE, t |-> <<>>, rest |-> <<>>]

\* v cut after its first i bytes.
CutAt(v, i) == [ok |-> TRUE, t |-> Slice(v, 0, i), rest |-> Slice(v, i, Len(v))]

\* semver.parseInt: a decimal number without a leading zero, and the rest.
ParseInt(v) ==
    IF v = <<>> \/ ~IsDigit(v[1]) \/ (v[1] = ch0 /\ DigitRun(v) # 1)
    THEN NoPart
    ELSE CutAt(v, DigitRun(v))

\* The dot-separated identifiers of a prerelease (bad numbers refused) or
\* of build metadata are not empty and made of [0-9A-Za-z-].
GoodIdents(idents, numbers) ==
    \A k \in 1..Len(idents) :
        /\ idents[k] # <<>>
        /\ \A j \in 1..Len(idents[k]) : IsIdentChar(idents[k][j])
        /\ (numbers => ~IsBadNum(idents[k]))

\* semver.parsePrerelease, for v starting with '-': up to the first '+'.
ParsePrerelease(v) ==
    IF GoodIdents(Split(Slice(v, 1, IndexOrEnd(v, chPlus)), chDot), TRUE)
    THEN CutAt(v, IndexOrEnd(v, chPlus))
    ELSE NoPart

\* semver.parseBuild, for v starting with '+': up to the end.
ParseBuild(v) ==
    IF GoodIdents(Split(Slice(v, 1, Len(v)), chDot), FALSE)
    THEN CutAt(v, Len(v))
    ELSE NoPart

NotSemver ==
    [ok |-> FALSE, major |-> <<>>, minor |-> <<>>, patch |-> <<>>,
     short |-> <<>>, prerelease |-> <<>>, build |-> <<>>]

\* A part that is optional: parsed when rest starts with the byte lead.
Optional(rest, lead, parsed) ==
    IF rest # <<>> /\ rest[1] = lead THEN parsed
    ELSE [ok |-> TRUE, t |-> <<>>, rest |-> rest]

\* semver.parse, after the build metadata: nothing may follow.
ParseEnd(major, minor, patch, pre, bld) ==
    IF ~bld.ok \/ bld.rest # <<>> THEN NotSemver
    ELSE [ok |-> TRUE, major |-> major, minor |-> minor, patch |-> patch,
          short |-> <<>>, prerelease |-> pre, build |-> bld.t]

\* semver.parse, after the prerelease.
ParseAfterPre(major, minor, patch, pre) ==
    IF ~pre.ok THEN NotSemver
    ELSE ParseEnd(major, minor, patch, pre.t,
                  Optional(pre.rest, chPlus, ParseBuild(pre.rest)))

\* semver.parse, after the patch number pt.
ParseAfterPatch(major, minor, pt) ==
    IF ~pt.ok THEN NotSemver
    ELSE ParseAfterPre(major, minor, pt.t,
                       Optional(pt.rest, chDash, ParsePrerelease(pt.rest)))

\* semver.parse, after the minor number pn.
ParseAfterMinor(major, pn) ==
    IF ~pn.ok THEN NotSemver
    ELSE IF pn.rest = <<>>
         THEN [NotSemver EXCEPT !.ok = TRUE, !.major = major, !.minor = pn.t,
                                !.patch = <<ch0>>, !.short = <<chDot, ch0>>]
    ELSE IF pn.rest[1] # chDot THEN NotSemver
    ELSE ParseAfterPatch(major, pn.t, ParseInt(Tail(pn.rest)))

\* semver.parse, after the major number pj.
ParseAfterMajor(pj) ==
    IF ~pj.ok THEN NotSemver
    ELSE IF pj.rest = <<>>
         THEN [NotSemver EXCEPT !.ok = TRUE, !.major = pj.t, !.minor = <<ch0>>,
                                !.patch = <<ch0>>,
                                !.short = <<chDot, ch0, chDot, ch0>>]
    ELSE IF pj.rest[1] # chDot THEN NotSemver
    ELSE ParseAfterMinor(pj.t, ParseInt(Tail(pj.rest)))

\* semver.parse: vMAJOR[.MINOR[.PATCH[-PRERELEASE][+BUILD]]].
Parse(v) ==
    IF v = <<>> \/ v[1] # chV THEN NotSemver
    ELSE ParseAfterMajor(ParseInt(Tail(v)))

\* semver.Canonical, given pv, the parse of v.
CanonicalOf(v, pv) ==
    IF ~pv.ok THEN <<>>
    ELSE IF pv.build # <<>> THEN Slice(v, 0, Len(v) - Len(pv.build))
    ELSE IF pv.short # <<>> THEN v \o pv.short
    ELSE v

\* semver.Canonical: v without build metadata, with .0 for missing numbers;
\* "" for an invalid version.
Canonical(v) == CanonicalOf(v, Parse(v))

\* semver.Major, given pv, the parse of v.
MajorOf(v, pv) == IF ~pv.ok THEN <<>> ELSE Slice(v, 0, 1 + Len(pv.major))

\* semver.Major: "v1" of "v1.2.3"; "" for an invalid version.
Major(v) == MajorOf(v, Parse(v))

\* semver.MajorMinor, given pv, the parse of v.
MajorMinorOf(v, pv) ==
    LET i == 1 + Len(pv.major)
        j == 2 + Len(pv.major) + Len(pv.minor)
    IN  IF ~pv.ok THEN <<>>
        ELSE IF j <= Len(v) /\ v[i + 1] = chDot /\ Slice(v, i + 1, j) = pv.minor
             THEN Slice(v, 0, j)
        ELSE Slice(v, 0, i) \o <<chDot>> \o pv.minor

\* semver.MajorMinor: "v1.2" of "v1.2.3"; "" for an invalid version.
MajorMinor(v) == MajorMinorOf(v, Parse(v))

\* semver.compareInt: decimal strings without leading zeros.
CompareInt(x, y) ==
    IF x = y THEN 0
    ELSE IF Len(x) < Len(y) THEN -1
    ELSE IF Len(x) > Len(y) THEN 1
    ELSE IF StrLess(x, y) THEN -1 ELSE 1

\* semver.nextIdent: the bytes of x before its first '.', and the rest.
NextIdent(x) ==
    [dx |-> Slice(x, 0, IndexOrEnd(x, chDot)),
     rest |-> Slice(x, IndexOrEnd(x, chDot), Len(x))]

\* semver.comparePrerelease, the comparison of two different identifiers:
\* numeric ones are older than others and compare as numbers.
CompareIdent(dx, dy) ==
    IF IsNum(dx) # IsNum(dy) THEN (IF IsNum(dx) THEN -1 ELSE 1)
    ELSE IF IsNum(dx) /\ Len(dx) < Len(dy) THEN -1
    ELSE IF IsNum(dx) /\ Len(dx) > Len(dy) THEN 1
    ELSE IF StrLess(dx, dy) THEN -1 ELSE 1

\* semver.comparePrerelease, the loop over the dot-separated identifiers,
\* given the next identifier of each side.
RECURSIVE ComparePrereleaseLoop(_, _)
ComparePrereleaseStep(nx, ny) ==
    IF nx.dx = ny.dx THEN ComparePrereleaseLoop(nx.rest, ny.rest)
    ELSE CompareIdent(nx.dx, ny.dx)

ComparePrereleaseLoop(x, y) ==
    IF x = <<>> \/ y = <<>>
    THEN (IF x = <<>> THEN -1 ELSE 1)
    ELSE ComparePrereleaseStep(NextIdent(Tail(x)), NextIdent(Tail(y)))

\* semver.comparePrerelease: a version without prerelease is the newer one.
ComparePrerelease(x, y) ==
    IF x = y THEN 0
    ELSE IF x = <<>> THEN 1
    ELSE IF y = <<>> THEN -1
    ELSE ComparePrereleaseLoop(x, y)

\* "if c := ...; c != 0 { return c }"
OrElse(c, next) == IF c # 0 THEN c ELSE next

\* semver.Compare, given the parses of the two versions.
CompareParsed(pv, pw) ==
    IF ~pv.ok /\ ~pw.ok THEN 0
    ELSE IF ~pv.ok THEN -1
    ELSE IF ~pw.ok THEN 1
    ELSE OrElse(CompareInt(pv.major, pw.major),
         OrElse(CompareInt(pv.minor, pw.minor),
         OrElse(CompareInt(pv.patch, pw.patch),
                ComparePrerelease(pv.prerelease, pw.prerelease))))

\* semver.Compare: -1, 0 or +1; an invalid version is older than a valid one.
Compare(v, w) == CompareParsed(Parse(v), Parse(w))

(***************************************************************************)
(* golang.org/x/mod/module.SplitPathVersion                                *)
(***************************************************************************)
\* The loop "for i > 0 && digit(path[i-1]) { i-- }" started at i = n.
TrimDigits(path, n) ==
    CHOOSE i \in 0..n :
        /\ \A j \in (i + 1)..n : IsDigit(path[j])
        /\ (i = 0 \/ ~IsDigit(path[i]))

IsDigitOrDot(b) == IsDigit(b) \/ b = chDot

\* The same loop over digits and dots.
TrimDigitsDots(path, n) ==
    CHOOSE i \in 0..n :
        /\ \A j \in (i + 1)..n : IsDigitOrDot(path[j])
        /\ (i = 0 \/ ~IsDigitOrDot(path[i]))

NoPathMajor(path, ok) == [prefix |-> path, pathMajor |-> <<>>, ok |-> ok]

strUnstable == B(<<"-", "u", "n", "s", "t", "a", "b", "l", "e">>)

strGopkgIn == B(<<"g", "o", "p", "k", "g", ".", "i", "n", "/">>)

\* module.splitGopkgIn, given i, where the digits of the suffix start.
SplitGopkgInAt(path, i) ==
    IF i <= 1 \/ path[i] # chV \/ path[i - 1] # chDot
    THEN NoPathMajor(path, FALSE)
    ELSE IF Len(path) - (i - 2) <= 2
            \/ (path[i + 1] = ch0 /\ Slice(path, i - 2, Len(path)) # <<chDot, chV, ch0>>)
    THEN NoPathMajor(path, FALSE)
    ELSE [prefix |-> Slice(path, 0, i - 2),
          pathMajor |-> Slice(path, i - 2, Len(path)), ok |-> TRUE]

\* module.splitGopkgIn: gopkg.in paths end in .vN (N without leading zero,
\* or .v0), optionally followed by -unstable.
SplitGopkgIn(path) ==
    SplitGopkgInAt(path,
        TrimDigits(path, IF HasSuffix(path, strUnstable)
                         THEN Len(path) - Len(strUnstable) ELSE Len(path)))

\* module.SplitPathVersion for other paths, given i, where the digits and
\* dots at the end of path start.
SplitPathVersionAt(path, i) ==
    IF i <= 1 \/ i = Len(path) \/ path[i] # chV \/ path[i - 1] # chSlash
    THEN NoPathMajor(path, TRUE)
    ELSE IF (\E j \in (i + 1)..Len(path) : path[j] = chDot)
            \/ Len(path) - (i - 2) <= 2
            \/ path[i + 1] = ch0
            \/ Slice(path, i - 2, Len(path)) = <<chSlash, chV, ch1>>
    THEN NoPathMajor(path, FALSE)
    ELSE [prefix |-> Slice(path, 0, i - 2),
          pathMajor |-> Slice(path, i - 2, Len(path)), ok |-> TRUE]

\* module.SplitPathVersion: the prefix and the major suffix ("", "/vN" with
\* N >= 2, or ".vN" for gopkg.in) of a module path; ok is false for a
\* malformed suffix.
SplitPathVersion(path) ==
    IF HasPrefix(path, strGopkgIn) THEN SplitGopkgIn(path)
    ELSE SplitPathVersionAt(path, TrimDigitsDots(path, Len(path)))

(***************************************************************************)
(* gorelease.go: version strings                                           *)
(***************************************************************************)
NoNumbers ==
    [major |-> <<>>, minor |-> <<>>, patch |-> <<>>, err |-> TRUE, panic |-> FALSE]

\* "if i >= 0 { base = base[:i] }": a bound past the end of base panics.
TrimAt(base, i) ==
    IF i < 0 THEN base
    ELSE IF i > Len(base) THEN Panic
    ELSE Slice(base, 0, i)

\* splitVersionNumbers, from strings.Split on.
NumbersOf(parts) ==
    IF Len(parts) # 3 THEN NoNumbers
    ELSE [major |-> parts[1], minor |-> parts[2], patch |-> parts[3],
          err |-> FALSE, panic |-> FALSE]

\* splitVersionNumbers, after the two trims.
SplitBase(base) ==
    IF base = Panic THEN [NoNumbers EXCEPT !.panic = TRUE]
    ELSE NumbersOf(Split(base, chDot))

\* splitVersionNumbers: the three dot-separated parts of vers after its "v".
\* The prerelease and the build metadata are cut at their index in vers,
\* applied to base = vers[1:].
splitVersionNumbers(vers) ==
    IF ~HasPrefix(vers, <<chV>>) THEN NoNumbers
    ELSE SplitBase(TrimAt(TrimAt(Tail(vers), IndexByte(vers, chDash)),
                          IndexByte(vers, chPlus)))

\* The for loop of incDecimal: the index (zero-based) of the last byte that
\* is not '9', or -1.
RECURSIVE LastNotNine(_, _)
LastNotNine(digits, i) ==
    IF i >= 0 /\ digits[i + 1] = ch9 THEN LastNotNine(digits, i - 1) ELSE i

\* incDecimal after the loop stopped at i: the bytes after i are '0'; the
\* byte at i is incremented; when there is none, digits[0] = '1' and a '0'
\* is appended (digits[0] of an empty slice panics).
IncAt(digits, i) ==
    IF i >= 0
    THEN [j \in 1..Len(digits) |->
            IF j > i + 1 THEN ch0
            ELSE IF j = i + 1 THEN (digits[j] + 1) % 256
            ELSE digits[j]]
    ELSE IF Len(digits) = 0 THEN Panic
    ELSE <<ch1>> \o [j \in 1..(Len(digits) - 1) |-> ch0] \o <<ch0>>

\* incDecimal without the scan over the trailing 9s, the last byte
\* incremented whatever it is: the fault C15's property must notice.
incDecimalNoCarry(decimal) == IncAt(decimal, Len(decimal) - 1)

\* incDecimal: the decimal string incremented by 1.
incDecimal(decimal) == IncAt(decimal, LastNotNine(decimal, Len(decimal) - 1))

\* likelyFirstVersion, given the numbers of vers.
likelyFirstOf(vers, s) ==
    IF s.err THEN FALSE
    ELSE \/ (s.minor = <<ch0>> /\ s.patch = <<ch0>>)
         \/ vers = <<chV, ch0, chDot, ch1, chDot, ch0>>
         \/ vers = <<chV, ch0, chDot, ch0, chDot, ch1>>

\* likelyFirstVersion: vN.0.0, v0.1.0 or v0.0.1.
likelyFirstVersion(vers) == likelyFirstOf(vers, splitVersionNumbers(vers))

(***************************************************************************)
(* gorelease.go: the report                                                *)
(***************************************************************************)
\* addPackage computing the change flags from p alone, so that a package
\* without changes clears them: the fault C11's property must notice.
addPackageLastOnly(rep, p) ==
    [rep EXCEPT
        !.packages = Append(@, p),
        !.haveCompatibleChanges = \E k \in 1..Len(p.Changes) : p.Changes[k].Compatible,
        !.haveIncompatibleChanges = \E k \in 1..Len(p.Changes) : ~p.Changes[k].Compatible,
        !.haveErrors = @ \/ Len(p.NewErrors) > 0]

\* report.addPackage: append p; a flag is set by what p holds and never
\* cleared.  haveErrors reads p.NewErrors only.
addPackage(rep, p) ==
    [rep EXCEPT
        !.packages = Append(@, p),
        !.haveCompatibleChanges =
            @ \/ \E k \in 1..Len(p.Changes) : p.Changes[k].Compatible,
        !.haveIncompatibleChanges =
            @ \/ \E k \in 1..Len(p.Changes) : ~p.Changes[k].Compatible,
        !.haveErrors = @ \/ Len(p.NewErrors) > 0]

\* validateChanges without the rule on compatible changes: the fault C2's
\* property must notice.
validateChangesAnyMinor(rep) ==
    IF Major(rep.baseVersion) = <<chV, ch0>> THEN "nil"
    ELSE IF rep.haveIncompatibleChanges THEN "incompatible changes"
    ELSE "nil"

\* validateChanges without the exemption of a v0 base: the fault C3's
\* property must notice.
validateChangesStrictV0(rep) ==
    IF rep.haveIncompatibleChanges THEN "incompatible changes"
    ELSE IF rep.haveCompatibleChanges
            /\ MajorMinor(rep.baseVersion) = MajorMinor(rep.releaseVersion)
         THEN "compatible changes, same major.minor"
    ELSE "nil"

\* report.validateVersion, "Check that compatible / incompatible changes are
\* consistent."
validateChanges(rep) ==
    IF Major(rep.baseVersion) = <<chV, ch0>> THEN "nil"
    ELSE IF rep.haveIncompatibleChanges THEN "incompatible changes"
    ELSE IF rep.haveCompatibleChanges
            /\ MajorMinor(rep.baseVersion) = MajorMinor(rep.releaseVersion)
         THEN "compatible changes, same major.minor"
    ELSE "nil"

\* validateSuffix without the else-branch for a module path that has no
\* suffix: the fault C4's property must notice.
validateSuffixUnsuffixedFree(rep, sp, major) ==
    IF ~sp.ok THEN "no version suffix"
    ELSE IF sp.pathMajor # <<>> /\ sp.pathMajor[1] # chSlash /\ sp.pathMajor[1] # chDot
         THEN "unknown version suffix"
    ELSE IF sp.pathMajor # <<>> /\ Tail(sp.pathMajor) # major
         THEN "major does not match suffix"
    ELSE validateChanges(rep)

\* report.validateVersion, "Check that the major version matches the module
\* path", given the split of the module path and the major of the release.
validateSuffix(rep, sp, major) ==
    IF ~sp.ok THEN "no version suffix"
    ELSE IF sp.pathMajor # <<>> /\ sp.pathMajor[1] # chSlash /\ sp.pathMajor[1] # chDot
         THEN "unknown version suffix"
    ELSE IF sp.pathMajor # <<>> /\ Tail(sp.pathMajor) # major
         THEN "major does not match suffix"
    ELSE IF sp.pathMajor = <<>> /\ major # <<chV, ch0>> /\ major # <<chV, ch1>>
         THEN "suffix required"
    ELSE validateChanges(rep)

\* report.validateVersion: "nil" or the reason of the error returned;
\* "panic" when no release version is set.
validateVersion(rep) ==
    IF rep.releaseVersion = <<>> THEN "panic"
    ELSE IF rep.haveErrors THEN "errors found"
    ELSE validateSuffix(rep, SplitPathVersion(rep.modulePath),
                        Major(rep.releaseVersion))

\* fmt.Sprintf("v%s.%s.%s", major, minor, patch); a panic in the
\* computation of a number is the outcome.
Sprintf(major, minor, patch) ==
    IF major = Panic \/ minor = Panic \/ patch = Panic THEN Panic
    ELSE <<chV>> \o major \o <<chDot>> \o minor \o <<chDot>> \o patch

\* report.suggestVersion, given the numbers of the base version.
suggestFrom(rep, s) ==
    IF s.err \/ s.panic THEN Panic
    ELSE IF rep.haveIncompatibleChanges /\ s.major # <<ch0>>
         THEN Sprintf(incDecimal(s.major), <<ch0>>, <<ch0>>)
    ELSE IF rep.haveCompatibleChanges
            \/ (rep.haveIncompatibleChanges /\ s.major = <<ch0>>)
         THEN Sprintf(s.major, incDecimal(s.minor), <<ch0>>)
    ELSE Sprintf(s.major, s.minor, incDecimal(s.patch))

\* report.suggestVersion: Panic when the base version cannot be split.
suggestVersion(rep) == suggestFrom(rep, splitVersionNumbers(rep.baseVersion))

\* isSuccessful without the test of the diagnostics: the fault C6's property
\* must notice.
isSuccessfulNoDiagnostics(rep) ==
    IF rep.haveErrors THEN FALSE
    ELSE IF rep.releaseVersion # <<>> THEN validateVersion(rep) = "nil"
    ELSE ~rep.haveIncompatibleChanges \/ Major(rep.baseVersion) = <<chV, ch0>>

\* isSuccessful without the test of the incompatible changes when no
\* release version is given: the fault C13's property must notice.
isSuccessfulAnyChanges(rep) ==
    IF rep.haveErrors \/ Len(rep.diagnostics) > 0 THEN FALSE
    ELSE IF rep.releaseVersion # <<>> THEN validateVersion(rep) = "nil"
    ELSE TRUE

\* report.isSuccessful.
isSuccessful(rep) ==
    IF rep.haveErrors \/ Len(rep.diagnostics) > 0 THEN FALSE
    ELSE IF rep.releaseVersion # <<>> THEN validateVersion(rep) = "nil"
    ELSE ~rep.haveIncompatibleChanges \/ Major(rep.baseVersion) = <<chV, ch0>>

NoSummary == [kind |-> "none", err |-> "nil", version |-> <<>>]

\* report.Text, the summary of a release version whose validation gave verr.
TextValidated(rep, verr) ==
    IF verr # "nil"
    THEN [kind |-> "invalid", err |-> verr, version |-> rep.releaseVersion]
    ELSE [kind |-> "valid", err |-> "nil", version |-> rep.releaseVersion]

\* report.Text, the summary that names the suggested version.
TextSuggested(rep, suggestedVersion) ==
    IF suggestedVersion = Panic THEN [NoSummary EXCEPT !.kind = "panic"]
    ELSE IF rep.haveIncompatibleChanges /\ rep.baseVersion # <<>>
            /\ Major(rep.baseVersion) # <<chV, ch0>>
         THEN [NoSummary EXCEPT !.kind = "incompatible, none suggested",
                                !.version = suggestedVersion]
    ELSE [NoSummary EXCEPT !.kind = "suggested", !.version = suggestedVersion]

\* report.Text without the branch for reports with errors: the fault C29's
\* property must notice.
TextErrorsSuggested(rep) ==
    IF Len(rep.diagnostics) > 0 THEN [NoSummary EXCEPT !.kind = "diagnostics"]
    ELSE IF rep.releaseVersion # <<>> THEN TextValidated(rep, validateVersion(rep))
    ELSE TextSuggested(rep, suggestVersion(rep))

\* report.Text: the summary written after the package sections.  kind is the
\* branch taken, err the validation error, version the version named.
Text(rep) ==
    IF Len(rep.diagnostics) > 0 THEN [NoSummary EXCEPT !.kind = "diagnostics"]
    ELSE IF rep.releaseVersion # <<>> THEN TextValidated(rep, validateVersion(rep))
    ELSE IF rep.haveErrors THEN [NoSummary EXCEPT !.kind = "errors detected"]
    ELSE TextSuggested(rep, suggestVersion(rep))

(***************************************************************************)
(* gorelease.go: module paths and package paths                            *)
(***************************************************************************)
\* dirMajorSuffix after its loop stopped at i.  The loop condition is
\*   i > 0 && digit(path[i-1]) || path[i-1] == '.'
\* so path[i-1] is read at i = 0 when every byte is a digit or a dot.
dirMajorSuffixAt(path, i) ==
    IF i = 0 THEN Panic
    ELSE IF i <= 1 \/ i = Len(path) \/ path[i] # chV
            \/ (i > 1 /\ path[i - 1] # chSlash)
         THEN <<>>
    ELSE Slice(path, i - 1, Len(path))

\* dirMajorSuffix: the last path element when it is "v" followed by digits
\* and dots, else "".
dirMajorSuffix(path) == dirMajorSuffixAt(path, TrimDigitsDots(path, Len(path)))

\* module.CheckPath, the rules a path of lower-case letters, digits, dots
\* and slashes can break: no empty element, a dot in the first element, a
\* well-formed major suffix.
CheckElems(path, elems) ==
    /\ \A k \in 1..Len(elems) : elems[k] # <<>>
    /\ IndexByte(elems[1], chDot) >= 0
    /\ SplitPathVersion(path).ok

CheckPath(path) == CheckElems(path, Split(path, chSlash))

\* checkModPath, given the suffix dirMajorSuffix found.
checkSuffix(path, suffix) ==
    IF suffix = Panic THEN "panic"
    ELSE IF suffix = <<chV, ch0>> \/ suffix = <<chV, ch1>>
         THEN "major suffix only allowed for v2 or later"
    ELSE IF HasPrefix(suffix, <<chV, ch0>>) THEN "major suffix has a leading zero"
    ELSE IF IndexByte(suffix, chDot) >= 0 THEN "major suffix contains dots"
    ELSE IF ~CheckPath(path) THEN "malformed module path"
    ELSE ""

\* checkModPath: "" or the error.
checkModPath(path) ==
    IF HasPrefix(path, <<chSlash>>) THEN "module path is absolute"
    ELSE checkSuffix(path, dirMajorSuffix(path))

\* The index (one-based) of the last '/' of p, 0 when there is none.
LastSlash(p) ==
    IF \E i \in 1..Len(p) : p[i] = chSlash
    THEN CHOOSE i \in 1..Len(p) :
             p[i] = chSlash /\ \A j \in (i + 1)..Len(p) : p[j] # chSlash
    ELSE 0

\* path.Base and path.Dir of a clean slash-separated path.
PathBase(p) == Slice(p, LastSlash(p), Len(p))

PathDir(p) == IF LastSlash(p) = 0 THEN <<chDot>> ELSE Slice(p, 0, LastSlash(p) - 1)

strInternal == B(<<"i", "n", "t", "e", "r", "n", "a", "l">>)

\* isInternal (closure of makeReleaseReport), for a package of the module:
\* some path element below the module path is "internal".
RECURSIVE isInternal(_, _)
isInternal(pkgPath, mod) ==
    IF pkgPath = mod THEN FALSE
    ELSE IF PathBase(pkgPath) = strInternal THEN TRUE
    ELSE isInternal(PathDir(pkgPath), mod)

(***************************************************************************)
(* The repository: tags, packages of a revision, what loading reports      *)
(***************************************************************************)
\* Bounds of the model.
MaxPkgs == 2

MaxSyms == 1

\* The exported symbols a package may declare.
Syms == 1..MaxSyms

\* The newest of a non-empty set of tags.
NewestTag(cands) == CHOOSE t \in cands : \A u \in cands : Compare(u, t) <= 0

\* The tags of a major version.
TagsOfMajor(tagset, major) == {t \in tagset : Major(t) = major}

\* codehost.RecentTag, for a module in the root directory of the repository
\* (tagPrefix ""): the highest version tag of the given major, "" for none.
RecentTag(tagset, major) ==
    IF TagsOfMajor(tagset, major) = {} THEN <<>>
    ELSE NewestTag(TagsOfMajor(tagset, major))

\* apidiff.Changes on the exported symbols of the two versions of a package:
\* a symbol removed is an incompatible change, a symbol added a compatible
\* one, identical sets give no change.
RECURSIVE ChangesFrom(_, _, _)
ChangesFrom(oldTypes, newTypes, sym) ==
    IF sym > MaxSyms THEN <<>>
    ELSE (IF sym \in oldTypes /\ sym \notin newTypes
          THEN <<[Message |-> "removed", Compatible |-> FALSE]>>
          ELSE IF sym \notin oldTypes /\ sym \in newTypes
          THEN <<[Message |-> "added", Compatible |-> TRUE]>>
          ELSE <<>>)
         \o ChangesFrom(oldTypes, newTypes, sym + 1)

apidiffChanges(oldTypes, newTypes) == ChangesFrom(oldTypes, newTypes, 1)

\* What packages.Load gives for one package: it type-checks and has Types,
\* or it has Errors.
PkgContents ==
    {[Errors |-> <<>>, Types |-> t] : t \in SUBSET Syms}
    \cup {[Errors |-> <<"type error">>, Types |-> {}]}

\* The least of a non-empty set of packages of distinct paths.
FirstPkg(S) == CHOOSE x \in S : \A y \in S \ {x} : StrLess(x.PkgPath, y.PkgPath)

\* sort.Slice(pkgs, by PkgPath), on packages of distinct paths.
RECURSIVE SortPkgs(_)
SortFrom(S, m) == <<m>> \o SortPkgs(S \ {m})

SortPkgs(S) == IF S = {} THEN <<>> ELSE SortFrom(S, FirstPkg(S))

\* The package lists checkoutAndLoad can return for a module mod whose
\* packages lie at the relative paths rels: at most MaxPkgs packages, one
\* per path, sorted by path.
Snapshots(mod, rels) ==
    {SortPkgs({[PkgPath |-> mod \o rel, Errors |-> f[rel].Errors,
                Types |-> f[rel].Types] : rel \in P}) :
        f \in [rels -> PkgContents],
        P \in {Q \in SUBSET rels : Cardinality(Q) <= MaxPkgs}}

\* The diagnostics of checkoutAndLoad for the release revision, from what
\* loading did to go.mod and go.sum.
loadDiagnostics(goModChanged, haveOrigGoSum, haveNewGoSum, goSumChanged) ==
    (IF goModChanged THEN <<"go.mod is not tidy">> ELSE <<>>)
    \o (IF ~haveNewGoSum THEN <<>>
        ELSE IF ~haveOrigGoSum THEN <<"go.sum is not committed">>
        ELSE IF goSumChanged /\ ~goModChanged
             THEN <<"go.sum is missing one or more hashes">>
        ELSE <<>>)

\* What packages.Load did to the go.mod and the go.sum of a checked-out
\* revision: go.sum differs when it appeared, went away or changed.
LoadEffects ==
    {e \in [goModChanged : BOOLEAN, haveOrigGoSum : BOOLEAN,
            haveNewGoSum : BOOLEAN, goSumChanged : BOOLEAN] :
        IF e.haveOrigGoSum # e.haveNewGoSum THEN e.goSumChanged
        ELSE (~e.haveOrigGoSum => ~e.goSumChanged)}

\* The loads whose go.sum is committed and stays as it is.
TidyEffects == {e \in LoadEffects : e.haveOrigGoSum /\ e.haveNewGoSum /\ ~e.goSumChanged}

\* The loads that change neither file.
NoEffects == {e \in TidyEffects : ~e.goModChanged}

\* checkoutAndLoad comparing go.mod and go.sum for every revision, not for
\* the release revision alone: the fault C19's property must notice.
checkoutAndLoadAnyRev(rev, e) ==
    IF e.haveOrigGoSum /\ ~e.haveNewGoSum
    THEN [rev |-> rev, effects |-> e, diagnostics |-> <<>>,
          err |-> IF rev = "HEAD" THEN "could not read go.sum" ELSE ""]
    ELSE [rev |-> rev, effects |-> e,
          diagnostics |-> loadDiagnostics(e.goModChanged, e.haveOrigGoSum,
                                          e.haveNewGoSum, e.goSumChanged),
          err |-> ""]

\* checkoutAndLoad of the revision rev ("HEAD", or "base" with the go.mod of
\* HEAD as goMod) when loading did e: the diagnostics and the error
\* returned.  origGoMod is set for HEAD only.
checkoutAndLoad(rev, e) ==
    IF rev # "HEAD" THEN [rev |-> rev, effects |-> e, diagnostics |-> <<>>, err |-> ""]
    ELSE IF e.haveOrigGoSum /\ ~e.haveNewGoSum
    THEN [rev |-> rev, effects |-> e, diagnostics |-> <<>>,
          err |-> "could not read go.sum"]
    ELSE [rev |-> rev, effects |-> e,
          diagnostics |-> loadDiagnostics(e.goModChanged, e.haveOrigGoSum,
                                          e.haveNewGoSum, e.goSumChanged),
          err |-> ""]

(***************************************************************************)
(* runRelease and makeReleaseReport                                        *)
(***************************************************************************)
\* report{}
ZeroReport ==
    [modulePath |-> <<>>, baseVersion |-> <<>>, releaseVersion |-> <<>>,
     tagPrefix |-> <<>>, packages |-> <<>>, diagnostics |-> <<>>,
     haveCompatibleChanges |-> FALSE, haveIncompatibleChanges |-> FALSE,
     haveErrors |-> FALSE]

\* The state when runRelease calls makeReleaseReport.
InitWith(bases, releases, paths, tagsets, dirs) ==
    /\ pc = "start"
    /\ baseFlag \in bases
    /\ releaseFlag \in releases
    /\ modPath \in paths
    /\ tags \in tagsets
    /\ err = ""
    /\ baseVersion = baseFlag
    /\ shouldCompare = FALSE
    /\ oldPkgs = <<>>
    /\ newPkgs = <<>>
    /\ oldIndex = 0
    /\ newIndex = 0
    /\ r = ZeroReport
    /\ summary = NoSummary
    /\ exitStatus = 0
    /\ goModFound \in BOOLEAN
    /\ pendingChanges \in BOOLEAN
    /\ codeDir \in dirs
    /\ checkouts = <<>>
    /\ decimalIn = <<>>
    /\ digitsOut = <<>>
    /\ differ = <<>>
    /\ unzip = <<>>

\* makeReleaseReport returns the error e: base.Fatalf, exit status 1.
Fatal(e) ==
    /\ pc' = "failed"
    /\ err' = e
    /\ exitStatus' = 1

\* A panic ends the process with the Go runtime's exit status, 2.
Panicked ==
    /\ pc' = "panicked"
    /\ exitStatus' = 2
    /\ UNCHANGED err

\* subdirMajor with the whole subdirectory as tag prefix, the major version
\* directory included: the fault C23's property must notice.
subdirMajorKeepDir(path, dir, major) ==
    IF HasSuffix(path, <<chSlash>> \o dir)
    THEN [codeRoot |-> Slice(path, 0, Len(path) - (Len(dir) + 1)),
          tagPrefix |-> dir \o <<chSlash>>, err |-> ""]
    ELSE [codeRoot |-> <<>>, tagPrefix |-> <<>>,
          err |-> "module path must end with the subdirectory or with it and the major suffix"]

\* codeRoot and tagPrefix of a module with a major suffix ("/vN") declared
\* in the subdirectory dir: in its major version directory, or not.
subdirMajor(path, dir, major) ==
    IF HasSuffix(path, <<chSlash>> \o dir)
    THEN [codeRoot |-> Slice(path, 0, Len(path) - (Len(dir) + 1)),
          tagPrefix |-> IF Len(dir) - Len(major) + 1 < 0 THEN Panic
                        ELSE Slice(dir, 0, Len(dir) - Len(major) + 1),
          err |-> IF Len(dir) - Len(major) + 1 < 0 THEN "panic" ELSE ""]
    ELSE IF HasSuffix(path, <<chSlash>> \o dir \o major)
    THEN [codeRoot |-> Slice(path, 0, Len(path) - (Len(dir) + Len(major) + 1)),
          tagPrefix |-> dir \o <<chSlash>>, err |-> ""]
    ELSE [codeRoot |-> <<>>, tagPrefix |-> <<>>,
          err |-> "module path must end with the subdirectory or with it and the major suffix"]

\* "Determine the module path prefix of the repository root (codeRoot) and
\* the version tag prefix of the current module (tagPrefix)": sp is
\* SplitPathVersion(path), dir the subdirectory of the module, "" when
\* modRoot = repoRoot.
subdirPrefix(path, dir, sp) ==
    IF dir = <<>> THEN [codeRoot |-> sp.prefix, tagPrefix |-> <<>>, err |-> ""]
    ELSE IF HasPrefix(sp.pathMajor, <<chDot>>)
    THEN [codeRoot |-> <<>>, tagPrefix |-> <<>>,
          err |-> "gopkg.in module must be declared in the root directory"]
    ELSE IF sp.pathMajor = <<>> \/ sp.pathMajor[1] # chSlash
    THEN IF ~HasSuffix(path, <<chSlash>> \o dir)
         THEN [codeRoot |-> <<>>, tagPrefix |-> <<>>,
               err |-> "module path must end with the subdirectory"]
         ELSE [codeRoot |-> Slice(path, 0, Len(path) - (Len(dir) + 1)),
               tagPrefix |-> dir \o <<chSlash>>, err |-> ""]
    ELSE subdirMajor(path, dir, sp.pathMajor)

\* The checks of the module path: checkModPath, then SplitPathVersion, then
\* the module path against the subdirectory of the module.
pathError(e) ==
    IF e # "" THEN e
    ELSE IF ~SplitPathVersion(modPath).ok THEN "no version suffix in module path"
    ELSE subdirPrefix(modPath, codeDir, SplitPathVersion(modPath)).err

\* treeError without the call of repoHasPendingChanges: the fault C16's
\* property must notice.
treeErrorNoStatus ==
    IF ~goModFound THEN "could not find go.mod"
    ELSE pathError(checkModPath(modPath))

\* The checks of the working tree, then of the module path: findModuleRoot
\* finds no go.mod, repoHasPendingChanges finds uncommitted changes.
treeError ==
    IF ~goModFound THEN "could not find go.mod"
    ELSE IF pendingChanges THEN "there are uncommitted changes"
    ELSE pathError(checkModPath(modPath))

\* The checks of -base against -version, given cmp, their comparison.
flagsError(cmp) ==
    IF cmp = 0 THEN "-base and -version must be different"
    ELSE IF cmp > 0 THEN "-base must be older than -version"
    ELSE treeError

\* The error of the checks before base detection, "" when they pass.
inputError ==
    IF baseFlag # <<>> /\ Canonical(baseFlag) # baseFlag
    THEN "-base is not a canonical semantic version"
    ELSE IF baseFlag # <<>> /\ releaseFlag # <<>>
         THEN flagsError(Compare(baseFlag, releaseFlag))
    ELSE treeError

\* makeReleaseReport ends with the error e, panics, or goes on.
EndChecks(e) ==
    IF e = "panic" THEN Panicked
    ELSE IF e # "" THEN Fatal(e)
    ELSE pc' = "detect" /\ UNCHANGED <<err, exitStatus>>

\* makeReleaseReport up to the base detection.
CheckInputs ==
    /\ pc = "start"
    /\ EndChecks(inputError)
    /\ UNCHANGED <<baseFlag, releaseFlag, modPath, tags, baseVersion,
                   shouldCompare, oldPkgs, newPkgs, oldIndex, newIndex, r, summary>>
    /\ UNCHANGED <<envVars, unitVars, checkouts>>

\* The tag the base detection finds for a module path without major
\* suffix: of v1, else of v0.
detectedV1V0(v1tag) ==
    IF v1tag # <<>> THEN v1tag ELSE RecentTag(tags, <<chV, ch0>>)

\* The tag the base detection finds: of the major of the module path, else
\* of v1, else of v0.
detectedFor(modPathMajor) ==
    IF modPathMajor # <<>> THEN RecentTag(tags, Tail(modPathMajor))
    ELSE detectedV1V0(RecentTag(tags, <<chV, ch1>>))

detectedTag == detectedFor(SplitPathVersion(modPath).pathMajor)

\* CheckDetected without the check for a greater base version: the fault
\* C26's property must notice.
CheckDetectedEqualOnly(cmp) ==
    IF releaseFlag # <<>> /\ cmp = 0
    THEN Fatal("detected base version is equal to release version")
    ELSE pc' = "load" /\ UNCHANGED <<err, exitStatus>>

\* The detected base version is checked against -version; cmp is their
\* comparison.
CheckDetected(cmp) ==
    IF releaseFlag # <<>> /\ cmp = 0
    THEN Fatal("detected base version is equal to release version")
    ELSE IF releaseFlag # <<>> /\ cmp > 0
    THEN Fatal("detected base version is greater than release version")
    ELSE pc' = "load" /\ UNCHANGED <<err, exitStatus>>

\* DetectWith going on without a tag even when the versions should be
\* compared: the fault C27's property must notice.
DetectWithNoError(compare, baseTag) ==
    /\ shouldCompare' = compare
    /\ IF baseVersion # <<>>
       THEN pc' = "load" /\ UNCHANGED <<err, exitStatus, baseVersion>>
       ELSE IF baseTag # <<>>
       THEN /\ baseVersion' = baseTag
            /\ CheckDetected(Compare(baseTag, releaseFlag))
       ELSE /\ UNCHANGED baseVersion
            /\ pc' = "load" /\ UNCHANGED <<err, exitStatus>>

\* "Auto-detect the base version if one wasn't specified", given the value
\* of shouldCompare and the tag found.
DetectWith(compare, baseTag) ==
    /\ shouldCompare' = compare
    /\ IF baseVersion # <<>>
       THEN pc' = "load" /\ UNCHANGED <<err, exitStatus, baseVersion>>
       ELSE IF baseTag # <<>>
       THEN /\ baseVersion' = baseTag
            /\ CheckDetected(Compare(baseTag, releaseFlag))
       ELSE /\ UNCHANGED baseVersion
            /\ IF compare
               THEN Fatal("could not detect base version")
               ELSE pc' = "load" /\ UNCHANGED <<err, exitStatus>>

\* shouldCompare and the base detection; likelyFirstVersion is called when
\* no base version is given, and panics where splitVersionNumbers does.
DetectBase ==
    /\ pc = "detect"
    /\ IF baseVersion = <<>> /\ splitVersionNumbers(releaseFlag).panic
       THEN Panicked /\ UNCHANGED <<baseVersion, shouldCompare>>
       ELSE DetectWith(IF baseVersion # <<>> THEN TRUE
                       ELSE ~likelyFirstVersion(releaseFlag),
                       detectedTag)
    /\ UNCHANGED <<baseFlag, releaseFlag, modPath, tags, oldPkgs, newPkgs,
                   oldIndex, newIndex, r, summary>>
    /\ UNCHANGED <<envVars, unitVars, checkouts>>

\* makeReleaseReport from the checkouts to the construction of the report:
\* head is what checkoutAndLoad returned for HEAD with the packages np, old
\* what it returned for the base version with the packages op.
LoadWith(np, head, op, old) ==
    IF head.err # ""
    THEN /\ Fatal(head.err)
         /\ checkouts' = <<head>>
         /\ UNCHANGED <<newPkgs, oldPkgs, oldIndex, newIndex, r>>
    ELSE /\ newPkgs' = np
         /\ oldPkgs' = IF shouldCompare THEN op ELSE <<>>
         /\ checkouts' = IF shouldCompare THEN <<head, old>> ELSE <<head>>
         /\ oldIndex' = 0
         /\ newIndex' = 0
         /\ r' = [ZeroReport EXCEPT !.modulePath = modPath,
                                    !.baseVersion = baseVersion,
                                    !.releaseVersion = releaseFlag,
                                    !.tagPrefix =
                                        subdirPrefix(modPath, codeDir,
                                            SplitPathVersion(modPath)).tagPrefix,
                                    !.diagnostics = head.diagnostics]
         /\ pc' = "loop"
         /\ UNCHANGED <<err, exitStatus>>

\* checkoutAndLoad of HEAD, then of the base version when comparing, and the
\* construction of the report; rels are the package directories of the
\* repository, headEffects and baseEffects what loading may do to the go.mod
\* and the go.sum of the two checkouts.
Load(rels, headEffects, baseEffects) ==
    /\ pc = "load"
    /\ \E np \in Snapshots(modPath, rels), he \in headEffects,
          op \in (IF shouldCompare THEN Snapshots(modPath, rels) ELSE {<<>>}),
          be \in (IF shouldCompare THEN baseEffects ELSE NoEffects) :
          LoadWith(np, checkoutAndLoad("HEAD", he), op, checkoutAndLoad("base", be))
    /\ UNCHANGED <<baseFlag, releaseFlag, modPath, tags, baseVersion,
                   shouldCompare, summary>>
    /\ UNCHANGED <<envVars, unitVars>>

\* "for oldIndex < len(oldPkgs) || newIndex < len(newPkgs)"
loopCond == IF oldIndex < Len(oldPkgs) THEN TRUE ELSE newIndex < Len(newPkgs)

\* The first branch: the next old package has no counterpart in newPkgs.
oldFirst ==
    IF oldIndex >= Len(oldPkgs) THEN FALSE
    ELSE IF newIndex = Len(newPkgs) THEN TRUE
    ELSE StrLess(oldPkgs[oldIndex + 1].PkgPath, newPkgs[newIndex + 1].PkgPath)

\* The second branch: the next new package has no counterpart in oldPkgs.
newFirst ==
    IF oldFirst THEN FALSE
    ELSE IF newIndex >= Len(newPkgs) THEN FALSE
    ELSE IF oldIndex = Len(oldPkgs) THEN TRUE
    ELSE StrLess(newPkgs[newIndex + 1].PkgPath, oldPkgs[oldIndex + 1].PkgPath)

\* oldOnlyReport with the removal marked compatible: the fault C12's
\* property must notice.
oldOnlyReportCompatible(oldPkg) ==
    [Path |-> oldPkg.PkgPath, OldErrors |-> oldPkg.Errors, NewErrors |-> <<>>,
     Changes |-> IF ~isInternal(oldPkg.PkgPath, modPath)
                 THEN <<[Message |-> "package removed", Compatible |-> TRUE]>>
                 ELSE <<>>]

\* The PackageReport of a package found in the old version only.
oldOnlyReport(oldPkg) ==
    [Path |-> oldPkg.PkgPath, OldErrors |-> oldPkg.Errors, NewErrors |-> <<>>,
     Changes |-> IF ~isInternal(oldPkg.PkgPath, modPath)
                 THEN <<[Message |-> "package removed", Compatible |-> FALSE]>>
                 ELSE <<>>]

\* The PackageReport of a package found in the new version only.
newOnlyReport(newPkg) ==
    [Path |-> newPkg.PkgPath, OldErrors |-> <<>>, NewErrors |-> newPkg.Errors,
     Changes |-> IF ~isInternal(newPkg.PkgPath, modPath) /\ shouldCompare
                 THEN <<[Message |-> "package added", Compatible |-> TRUE]>>
                 ELSE <<>>]

\* bothReport without the test of the errors, apidiff always called: the
\* fault C8's property must notice.
bothReportAlwaysDiff(oldPkg, newPkg) ==
    [Path |-> oldPkg.PkgPath, OldErrors |-> oldPkg.Errors, NewErrors |-> newPkg.Errors,
     Changes |-> apidiffChanges(oldPkg.Types, newPkg.Types)]

\* The PackageReport of a package found in both versions.
bothReport(oldPkg, newPkg) ==
    [Path |-> oldPkg.PkgPath, OldErrors |-> oldPkg.Errors, NewErrors |-> newPkg.Errors,
     Changes |-> IF Len(oldPkg.Errors) = 0 /\ Len(newPkg.Errors) = 0
                 THEN apidiffChanges(oldPkg.Types, newPkg.Types)
                 ELSE <<>>]

\* The first branch of the loop body, for oldPkg = oldPkgs[oldIndex].
mergeOld(rep, oldPkg) ==
    IF ~isInternal(oldPkg.PkgPath, modPath) \/ Len(oldPkg.Errors) > 0
    THEN addPackage(rep, oldOnlyReport(oldPkg))
    ELSE rep

\* The second branch of the loop body, for newPkg = newPkgs[newIndex].
mergeNew(rep, newPkg) ==
    IF isInternal(newPkg.PkgPath, modPath) /\ Len(newPkg.Errors) = 0 /\ ~shouldCompare
    THEN rep
    ELSE addPackage(rep, newOnlyReport(newPkg))

\* The last branch reporting the old and the new package apart, as if their
\* paths differed: the fault C10's property must notice.
mergeBothApart(rep, oldPkg, newPkg) ==
    IF ~isInternal(oldPkg.PkgPath, modPath)
    THEN addPackage(addPackage(rep, oldOnlyReport(oldPkg)), newOnlyReport(newPkg))
    ELSE rep

\* The last branch of the loop body.
mergeBoth(rep, oldPkg, newPkg) ==
    IF ~isInternal(oldPkg.PkgPath, modPath)
    THEN addPackage(rep, bothReport(oldPkg, newPkg))
    ELSE rep

\* One iteration of the merge loop, first branch.
LoopOld ==
    /\ pc = "loop"
    /\ loopCond
    /\ oldFirst
    /\ oldIndex' = oldIndex + 1
    /\ r' = mergeOld(r, oldPkgs[oldIndex + 1])
    /\ UNCHANGED <<pc, baseFlag, releaseFlag, modPath, tags, err, baseVersion,
                   shouldCompare, oldPkgs, newPkgs, newIndex, summary, exitStatus>>
    /\ UNCHANGED <<envVars, unitVars, checkouts>>

\* One iteration of the merge loop, second branch.
LoopNew ==
    /\ pc = "loop"
    /\ loopCond
    /\ newFirst
    /\ newIndex' = newIndex + 1
    /\ r' = mergeNew(r, newPkgs[newIndex + 1])
    /\ UNCHANGED <<pc, baseFlag, releaseFlag, modPath, tags, err, baseVersion,
                   shouldCompare, oldPkgs, newPkgs, oldIndex, summary, exitStatus>>
    /\ UNCHANGED <<envVars, unitVars, checkouts>>

\* LoopBoth leaving the new package for the next iteration: the fault
\* C25's property must notice.
LoopBothOldOnly ==
    /\ pc = "loop"
    /\ loopCond
    /\ ~oldFirst
    /\ ~newFirst
    /\ oldIndex' = oldIndex + 1
    /\ r' = mergeBoth(r, oldPkgs[oldIndex + 1], newPkgs[newIndex + 1])
    /\ UNCHANGED <<pc, baseFlag, releaseFlag, modPath, tags, err, baseVersion,
                   shouldCompare, oldPkgs, newPkgs, newIndex, summary, exitStatus>>
    /\ UNCHANGED <<envVars, unitVars, checkouts>>

\* One iteration of the merge loop, last branch: both lists have a package
\* left and the two paths are equal.
LoopBoth ==
    /\ pc = "loop"
    /\ loopCond
    /\ ~oldFirst
    /\ ~newFirst
    /\ oldIndex' = oldIndex + 1
    /\ newIndex' = newIndex + 1
    /\ r' = mergeBoth(r, oldPkgs[oldIndex + 1], newPkgs[newIndex + 1])
    /\ UNCHANGED <<pc, baseFlag, releaseFlag, modPath, tags, err, baseVersion,
                   shouldCompare, oldPkgs, newPkgs, summary, exitStatus>>
    /\ UNCHANGED <<envVars, unitVars, checkouts>>

\* makeReleaseReport returns r; runRelease writes report.Text.
WriteText ==
    /\ pc = "loop"
    /\ ~loopCond
    /\ summary' = Text(r)
    /\ IF summary'.kind = "panic"
       THEN pc' = "panicked" /\ exitStatus' = 2
       ELSE pc' = "written" /\ UNCHANGED exitStatus
    /\ UNCHANGED <<baseFlag, releaseFlag, modPath, tags, err, baseVersion,
                   shouldCompare, oldPkgs, newPkgs, oldIndex, newIndex, r>>
    /\ UNCHANGED <<envVars, unitVars, checkouts>>

\* runRelease sets the exit status from report.isSuccessful.
Exit ==
    /\ pc = "written"
    /\ exitStatus' = IF isSuccessful(r) THEN 0 ELSE 1
    /\ pc' = "done"
    /\ UNCHANGED <<baseFlag, releaseFlag, modPath, tags, err, baseVersion,
                   shouldCompare, oldPkgs, newPkgs, oldIndex, newIndex, r, summary>>
    /\ UNCHANGED <<envVars, unitVars, checkouts>>

(***************************************************************************)
(* Inputs                                                                  *)
(***************************************************************************)
v050 == B(<<"v", "0", ".", "5", ".", "0">>)
v060 == B(<<"v", "0", ".", "6", ".", "0">>)
v100 == B(<<"v", "1", ".", "0", ".", "0">>)
v123 == B(<<"v", "1", ".", "2", ".", "3">>)
v123pre == B(<<"v", "1", ".", "2", ".", "3", "-", "p", "r", "e">>)
v124 == B(<<"v", "1", ".", "2", ".", "4">>)
v130 == B(<<"v", "1", ".", "3", ".", "0">>)
v200 == B(<<"v", "2", ".", "0", ".", "0">>)

pathM == B(<<"a", ".", "i", "o", "/", "m">>)
pathMv2 == B(<<"a", ".", "i", "o", "/", "m", "/", "v", "2">>)
pathGopkg1 == B(<<"g", "o", "p", "k", "g", ".", "i", "n", "/", "m", ".", "v", "1">>)

\* Package directories: a, a/internal and b below the module root.
RelPaths ==
    {B(<<"/", "a">>),
     B(<<"/", "a", "/", "i", "n", "t", "e", "r", "n", "a", "l">>),
     B(<<"/", "b">>)}

(***************************************************************************)
(* Spec: the base version detected from the tags, every package layout    *)
(***************************************************************************)
Init == InitWith({<<>>}, {<<>>, v100}, {pathM}, {{}, {v100, v123}}, {<<>>})

Next ==
    \/ CheckInputs
    \/ DetectBase
    \/ Load(RelPaths, TidyEffects, NoEffects)
    \/ LoopOld
    \/ LoopNew
    \/ LoopBoth
    \/ WriteText
    \/ Exit

Spec == Init /\ [][Next]_vars

(***************************************************************************)
(* SpecPolicy: every version pair, packages a and b                        *)
(***************************************************************************)
PolicyBases == {<<>>, v050, v123, v123pre}

PolicyReleases == {<<>>, v060, v124, v130, v200}

PolicyPaths == {pathM, pathMv2, pathGopkg1}

\* Package directories: a and b below the module root.
PolicyRelPaths == {B(<<"/", "a">>), B(<<"/", "b">>)}

InitPolicy == InitWith(PolicyBases, PolicyReleases, PolicyPaths, {{}}, {<<>>})

NextPolicy ==
    \/ CheckInputs
    \/ DetectBase
    \/ Load(PolicyRelPaths, TidyEffects, NoEffects)
    \/ LoopOld
    \/ LoopNew
    \/ LoopBoth
    \/ WriteText
    \/ Exit

SpecPolicy == InitPolicy /\ [][NextPolicy]_vars

(***************************************************************************)
(* SpecFirst: no -base, with and without a tag to detect                   *)
(***************************************************************************)
\* -version: none, v1.0.0, v0.1.0, v0.0.1, v0.1.1, v1.3.0 and
\* v1.0.0-pre+b; tags: none, or v0.5.0.
InitFirst ==
    InitWith({<<>>},
             {<<>>, v100, v130, v100 \o B(<<"-", "p", "r", "e", "+", "b">>),
              B(<<"v", "0", ".", "1", ".", "0">>), B(<<"v", "0", ".", "0", ".", "1">>),
              B(<<"v", "0", ".", "1", ".", "1">>)},
             {pathM}, {{}, {v050}}, {<<>>})

SpecFirst == InitFirst /\ [][Next]_vars

(***************************************************************************)
(* SpecBase: the base version given or detected, older than, equal to and  *)
(* newer than the release version                                          *)
(***************************************************************************)
SpecBase ==
    /\ InitWith({<<>>, v050, v123}, {<<>>, v050, v060, v130}, {pathM},
                {{}, {v050}, {v123}}, {<<>>})
    /\ [][NextPolicy]_vars

(***************************************************************************)
(* SpecLoad: -base=v1.2.3, one package, every effect of loading on go.mod  *)
(* and go.sum                                                              *)
(***************************************************************************)
InitLoad == InitWith({v123}, {<<>>, v130}, {pathM}, {{}}, {<<>>})

NextLoad ==
    \/ CheckInputs
    \/ DetectBase
    \/ Load({B(<<"/", "a">>)}, LoadEffects, LoadEffects)
    \/ LoopOld
    \/ LoopNew
    \/ LoopBoth
    \/ WriteText
    \/ Exit

SpecLoad == InitLoad /\ [][NextLoad]_vars

(***************************************************************************)
(* SpecInputs: flags, working trees and module paths that are refused      *)
(***************************************************************************)
\* -base: none, v1.2.3, v1.2 and v1.2.3+b (not canonical), v2.0.0;
\* -version: none, v1.2.3, v1.3.0; module paths: a.io/m, a.io/m/v2, /m,
\* a.io/m/v0, a.io/m/v1, a.io/m/v02, a.io/m/v1.2, the empty path and 1.2.
InitInputs ==
    InitWith({<<>>, v123, B(<<"v", "1", ".", "2">>), v123 \o B(<<"+", "b">>), v200},
             {<<>>, v123, v130},
             {pathM, pathMv2, B(<<"/", "m">>),
              pathM \o B(<<"/", "v", "0">>), pathM \o B(<<"/", "v", "1">>),
              pathM \o B(<<"/", "v", "0", "2">>),
              pathM \o B(<<"/", "v", "1", ".", "2">>),
              <<>>, B(<<"1", ".", "2">>)},
             {{}}, {<<>>})

SpecInputs == InitInputs /\ [][NextPolicy]_vars

(***************************************************************************)
(* SpecSub: modules declared in a subdirectory of the repository           *)
(***************************************************************************)
\* -base=v1.2.3; -version: none, v1.3.0, v2.0.0; module paths a.io/m,
\* a.io/m/v2 and gopkg.in/m.v1; go.mod in the repository root or in the
\* directory m, m/v2, v2 or x.
SpecSub ==
    /\ InitWith({v123}, {<<>>, v130, v200}, PolicyPaths, {{}},
                {<<>>, B(<<"m">>), B(<<"m", "/", "v", "2">>), B(<<"v", "2">>),
                 B(<<"x">>)})
    /\ [][NextPolicy]_vars

(***************************************************************************)
(* SpecReport: report.addPackage called on a report with any packages      *)
(***************************************************************************)
\* Bounds: the calls of addPackage, the changes of a PackageReport.
MaxAdds == 2

MaxChanges == 2

\* []apidiff.Change of at most MaxChanges changes, each compatible or not.
ChangeLists ==
    UNION {[1..n -> {[Message |-> "changed", Compatible |-> c] : c \in BOOLEAN}] :
              n \in 0..MaxChanges}

\* The PackageReport values addPackage is called with.
PackageReports ==
    {[Path |-> pathM, OldErrors |-> oe, NewErrors |-> ne, Changes |-> cs] :
        oe \in {<<>>, <<"type error">>}, ne \in {<<>>, <<"type error">>},
        cs \in ChangeLists}

\* The state in which a function is called on its own, at = its name, on
\* the zero report, a decimal string of decimals, a comparison of differs
\* and an archive of zips.
InitCall(at, decimals, differs, zips) ==
    /\ pc = at
    /\ baseFlag = <<>>
    /\ releaseFlag = <<>>
    /\ modPath = pathM
    /\ tags = {}
    /\ err = ""
    /\ baseVersion = <<>>
    /\ shouldCompare = FALSE
    /\ oldPkgs = <<>>
    /\ newPkgs = <<>>
    /\ oldIndex = 0
    /\ newIndex = 0
    /\ r = ZeroReport
    /\ summary = NoSummary
    /\ exitStatus = 0
    /\ goModFound = TRUE
    /\ pendingChanges = FALSE
    /\ codeDir = <<>>
    /\ checkouts = <<>>
    /\ decimalIn \in decimals
    /\ digitsOut = <<>>
    /\ differ \in differs
    /\ unzip \in zips

\* r.addPackage(p)
AddPackage ==
    /\ pc = "addPackage"
    /\ Len(r.packages) < MaxAdds
    /\ \E p \in PackageReports : r' = addPackage(r, p)
    /\ UNCHANGED <<pc, baseFlag, releaseFlag, modPath, tags, err, baseVersion,
                   shouldCompare, oldPkgs, newPkgs, oldIndex, newIndex,
                   summary, exitStatus, envVars, unitVars, checkouts>>

SpecReport == InitCall("addPackage", {<<>>}, {<<>>}, {<<>>}) /\ [][AddPackage]_vars

(***************************************************************************)
(* SpecDecimal: incDecimal called on every string of decimal digits        *)
(***************************************************************************)
\* Bound: the length of the argument.
MaxDigits == 3

\* The non-empty strings of at most MaxDigits decimal digits.
DecimalStrings == UNION {[1..n -> ch0..ch9] : n \in 1..MaxDigits}

\* digitsOut = incDecimal(decimalIn)
IncDecimal ==
    /\ pc = "incDecimal"
    /\ digitsOut' = incDecimal(decimalIn)
    /\ pc' = "returned"
    /\ UNCHANGED <<baseFlag, releaseFlag, modPath, tags, err, baseVersion,
                   shouldCompare, oldPkgs, newPkgs, oldIndex, newIndex, r,
                   summary, exitStatus, envVars, checkouts, decimalIn, differ,
                   unzip>>

SpecDecimal == InitCall("incDecimal", DecimalStrings, {<<>>}, {<<>>}) /\ [][IncDecimal]_vars

(***************************************************************************)
(* SpecDiff: apidiff.Changes comparing a self-referential type with its    *)
(* next version.  The comparison is a recursion over pairs of types; the   *)
(* model keeps its call stack, one frame per pair under comparison.        *)
(***************************************************************************)
\* Bound: the number of named types on the reference cycle (1: the struct
\* points to itself).
MaxNamed == 3

\* Bound: the depth at which the model stops following the recursion.
MaxDepth == 16

\* The named types of a snapshot: type T<i> struct { next *T<j>; val int },
\* j the next type on a cycle of d.n.  In the new snapshot the struct of type
\* d.changedAt differs: val has another kind, val is gone, or a field was
\* added.  A named type is [cat |-> "named", name |-> i].
underlying(d, side, i) ==
    LET next == [name |-> "next",
                 type |-> [cat |-> "pointer",
                           elem |-> [cat |-> "named", name |-> (i % d.n) + 1]]]
        val(kind) == [name |-> "val", type |-> [cat |-> "prim", kind |-> kind]]
        extra == [name |-> "extra", type |-> [cat |-> "prim", kind |-> "int"]]
        changed == side = "new" /\ d.changedAt = i
    IN  [cat |-> "struct",
         fields |->
            IF changed /\ d.how = "kind" THEN <<next, val("string")>>
            ELSE IF changed /\ d.how = "removed" THEN <<next>>
            ELSE IF changed /\ d.how = "added" THEN <<next, val("int"), extra>>
            ELSE <<next, val("int")>>]

\* The pairs of types the comparison of old with new recurses into: the
\* underlying types of a named type, the elements of pointers, the types of
\* the fields that both structs have.
children(d, old, new) ==
    IF old.cat # new.cat THEN <<>>
    ELSE IF old.cat = "named"
      THEN IF old.name = new.name
             THEN <<[old |-> underlying(d, "old", old.name),
                     new |-> underlying(d, "new", new.name)]>>
             ELSE <<>>
    ELSE IF old.cat = "pointer" THEN <<[old |-> old.elem, new |-> new.elem]>>
    ELSE IF old.cat = "struct"
      THEN LET In(gs, f) == \E k \in 1..Len(gs) : gs[k].name = f.name
               both == SelectSeq(old.fields, LAMBDA f : In(new.fields, f))
               Named(gs, f) == gs[CHOOSE k \in 1..Len(gs) : gs[k].name = f.name]
           IN  [k \in 1..Len(both) |->
                   [old |-> both[k].type,
                    new |-> Named(new.fields, both[k]).type]]
    ELSE <<>>

\* The changes the comparison of old with new finds without recursing.
localChanges(old, new) ==
    LET Change(message, compatible) ==
            <<[Message |-> message, Compatible |-> compatible]>>
        Missing(fs, gs) ==
            \E j \in 1..Len(fs) : \A k \in 1..Len(gs) : gs[k].name # fs[j].name
    IN  IF old.cat # new.cat THEN Change("changed", FALSE)
        ELSE IF old.cat = "prim"
          THEN IF old.kind = new.kind THEN <<>> ELSE Change("changed", FALSE)
        ELSE IF old.cat = "named"
          THEN IF old.name = new.name THEN <<>> ELSE Change("changed", FALSE)
        ELSE IF old.cat = "struct"
          THEN (IF Missing(old.fields, new.fields)
                  THEN Change("removed", FALSE) ELSE <<>>)
               \o (IF Missing(new.fields, old.fields)
                     THEN Change("added", TRUE) ELSE <<>>)
        ELSE <<>>

\* The cycle guard: old and new are named types and the pair of their
\* names is under comparison already.
beingComparedNever(d, old, new) ==
    FALSE
beingCompared(d, old, new) ==
    /\ old.cat = "named"
    /\ new.cat = "named"
    /\ <<old.name, new.name>> \in d.visiting

\* The comparisons apidiff.Changes is called on: type T1 of the old
\* snapshot against type T1 of the new one.  stack is the call stack of
\* compare, a frame per pair with the number of children it was called on.
Differs ==
    {[n |-> s[1], changedAt |-> s[2], how |-> s[3],
      stack |-> <<[old |-> [cat |-> "named", name |-> 1],
                   new |-> [cat |-> "named", name |-> 1], next |-> 0]>>,
      visiting |-> {}, changes |-> <<>>, reentered |-> 0] :
        s \in {s \in (1..MaxNamed) \X (0..MaxNamed)
                       \X {"same", "kind", "removed", "added"} :
                 s[2] <= s[1] /\ (s[2] = 0 <=> s[3] = "same")}}

\* compare(old, new) is entered: a pair under comparison is left at once as
\* equal; any other pair records what differs and, for named types, is put
\* in the set of pairs under comparison.
CompareEnter ==
    /\ pc = "compare"
    /\ differ.stack # <<>>
    /\ LET top == differ.stack[Len(differ.stack)]
           named == top.old.cat = "named" /\ top.new.cat = "named"
       IN  /\ top.next = 0
           /\ differ' =
                IF beingCompared(differ, top.old, top.new)
                  THEN [differ EXCEPT
                          !.stack = SubSeq(@, 1, Len(@) - 1),
                          !.reentered = @ + 1]
                  ELSE [differ EXCEPT
                          !.stack[Len(differ.stack)].next = 1,
                          !.changes = @ \o localChanges(top.old, top.new),
                          !.visiting =
                              IF named
                                THEN @ \cup {<<top.old.name, top.new.name>>}
                                ELSE @]
    /\ UNCHANGED pc
    /\ UNCHANGED <<baseFlag, releaseFlag, modPath, tags, err, baseVersion,
                   shouldCompare, oldPkgs, newPkgs, oldIndex, newIndex, r,
                   summary, exitStatus, envVars, checkouts, decimalIn,
                   digitsOut, unzip>>

\* compare(old, new) calls itself on its next pair of children.
CompareCall ==
    /\ pc = "compare"
    /\ differ.stack # <<>>
    /\ Len(differ.stack) < MaxDepth
    /\ LET top == differ.stack[Len(differ.stack)]
           pairs == children(differ, top.old, top.new)
       IN  /\ top.next \in 1..Len(pairs)
           /\ differ' =
                [differ EXCEPT
                   !.stack =
                       Append([@ EXCEPT ![Len(@)].next = top.next + 1],
                              [old |-> pairs[top.next].old,
                               new |-> pairs[top.next].new, next |-> 0])]
    /\ UNCHANGED pc
    /\ UNCHANGED <<baseFlag, releaseFlag, modPath, tags, err, baseVersion,
                   shouldCompare, oldPkgs, newPkgs, oldIndex, newIndex, r,
                   summary, exitStatus, envVars, checkouts, decimalIn,
                   digitsOut, unzip>>

\* compare(old, new) returns: the pair is under comparison no longer.
CompareReturn ==
    /\ pc = "compare"
    /\ differ.stack # <<>>
    /\ LET top == differ.stack[Len(differ.stack)]
           named == top.old.cat = "named" /\ top.new.cat = "named"
       IN  /\ top.next > Len(children(differ, top.old, top.new))
           /\ differ' =
                [differ EXCEPT
                   !.stack = SubSeq(@, 1, Len(@) - 1),
                   !.visiting =
                       IF named THEN @ \ {<<top.old.name, top.new.name>>}
                                ELSE @]
    /\ UNCHANGED pc
    /\ UNCHANGED <<baseFlag, releaseFlag, modPath, tags, err, baseVersion,
                   shouldCompare, oldPkgs, newPkgs, oldIndex, newIndex, r,
                   summary, exitStatus, envVars, checkouts, decimalIn,
                   digitsOut, unzip>>

\* apidiff.Changes returns.
CompareDone ==
    /\ pc = "compare"
    /\ differ.stack = <<>>
    /\ pc' = "compared"
    /\ UNCHANGED differ
    /\ UNCHANGED <<baseFlag, releaseFlag, modPath, tags, err, baseVersion,
                   shouldCompare, oldPkgs, newPkgs, oldIndex, newIndex, r,
                   summary, exitStatus, envVars, checkouts, decimalIn,
                   digitsOut, unzip>>

NextDiff == CompareEnter \/ CompareCall \/ CompareReturn \/ CompareDone

\* The comparison is sequential code that runs on until it returns.
SpecDiff ==
    InitCall("compare", {<<>>}, Differs, {<<>>}) /\ [][NextDiff]_vars /\ WF_vars(NextDiff)


(***************************************************************************)
(* SpecUnzip: fakemodfetch.Unzip on every small archive.  The name of an   *)
(* archive entry is the sequence of its path elements below the prefix;   *)
(* "A" and "a" differ in case only; an entry holds its declared size and   *)
(* whether its content is longer.                                          *)
(***************************************************************************)
\* Bound: the number of entries of the archive.
MaxEntries == 2

\* Bound: codehost.MaxZipFile, the limit of the declared sizes together.
MaxZipFile == 2

\* checkFold: name is entered in foldPath, after its directories, unless a
\* name that differs from it in case only is there; foldPath is kept as
\* the set of the names entered.
RECURSIVE checkFold(_, _)
checkFold(foldPath, name) ==
    LET ToFold(n) == [k \in DOMAIN n |-> IF n[k] = "A" THEN "a" ELSE n[k]]
    IN  IF name \in foldPath THEN [ok |-> TRUE, foldPath |-> foldPath]
        ELSE LET dir == IF Len(name) > 1
                          THEN checkFold(foldPath, SubSeq(name, 1, Len(name) - 1))
                          ELSE [ok |-> TRUE, foldPath |-> foldPath]
             IN  IF ~dir.ok THEN dir
                 ELSE IF \A n \in dir.foldPath : ToFold(n) # ToFold(name)
                   THEN [ok |-> TRUE, foldPath |-> dir.foldPath \cup {name}]
                 ELSE [ok |-> FALSE, foldPath |-> dir.foldPath]

\* "Directory can exist, but must be empty."
UnzipOpen ==
    /\ pc = "Unzip"
    /\ IF unzip.nonEmpty
       THEN /\ unzip' = [unzip EXCEPT
                           !.err = "target directory exists and is not empty"]
            /\ pc' = "unzipped"
       ELSE /\ unzip' = [unzip EXCEPT !.i = 1]
            /\ pc' = "check"
    /\ UNCHANGED <<baseFlag, releaseFlag, modPath, tags, err, baseVersion,
                   shouldCompare, oldPkgs, newPkgs, oldIndex, newIndex, r,
                   summary, exitStatus, envVars, checkouts, decimalIn,
                   digitsOut, differ>>

\* UnzipCheck without the test of the sizes: the fault C24's property must
\* notice.
UnzipCheckAnySize ==
    /\ pc = "check"
    /\ IF unzip.i > Len(unzip.files)
       THEN unzip' = [unzip EXCEPT !.i = 1] /\ pc' = "extract"
       ELSE LET zf == unzip.files[unzip.i]
                fold == checkFold(unzip.foldPath, zf.elems)
                bad == \E k \in 1..Len(zf.elems) : zf.elems[k] = ".."
            IN  IF zf.prefixed /\ (zf.elems = <<>> \/ zf.isDir \/ (~bad /\ fold.ok))
                THEN /\ unzip' = [unzip EXCEPT
                                    !.i = @ + 1,
                                    !.foldPath = IF zf.elems = <<>> \/ zf.isDir
                                                   THEN @ ELSE fold.foldPath]
                     /\ UNCHANGED pc
                ELSE /\ unzip' = [unzip EXCEPT !.err = "invalid entry"]
                     /\ pc' = "unzipped"
    /\ UNCHANGED <<baseFlag, releaseFlag, modPath, tags, err, baseVersion,
                   shouldCompare, oldPkgs, newPkgs, oldIndex, newIndex, r,
                   summary, exitStatus, envVars, checkouts, decimalIn,
                   digitsOut, differ>>

\* "Check total size, valid file names": one iteration of the first loop,
\* or its end.
UnzipCheck ==
    /\ pc = "check"
    /\ IF unzip.i > Len(unzip.files)
       THEN unzip' = [unzip EXCEPT !.i = 1] /\ pc' = "extract"
       ELSE LET zf == unzip.files[unzip.i]
                fold == checkFold(unzip.foldPath, zf.elems)
                bad == \E k \in 1..Len(zf.elems) : zf.elems[k] = ".."
                e == IF ~zf.prefixed THEN "unexpected file name"
                     ELSE IF zf.elems = <<>> \/ zf.isDir THEN "continue"
                     ELSE IF bad THEN "malformed file path"
                     ELSE IF ~fold.ok THEN "case-insensitive file name collision"
                     ELSE IF bad THEN "invalid file name"
                     ELSE IF MaxZipFile - unzip.size < zf.declared
                       THEN "content too large"
                     ELSE ""
            IN  IF e = "continue"
                THEN unzip' = [unzip EXCEPT !.i = @ + 1] /\ UNCHANGED pc
                ELSE IF e # ""
                THEN unzip' = [unzip EXCEPT !.err = e] /\ pc' = "unzipped"
                ELSE /\ unzip' = [unzip EXCEPT !.i = @ + 1,
                                               !.foldPath = fold.foldPath,
                                               !.size = @ + zf.declared]
                     /\ UNCHANGED pc
    /\ UNCHANGED <<baseFlag, releaseFlag, modPath, tags, err, baseVersion,
                   shouldCompare, oldPkgs, newPkgs, oldIndex, newIndex, r,
                   summary, exitStatus, envVars, checkouts, decimalIn,
                   digitsOut, differ>>

\* "Unzip, enforcing sizes checked earlier": one iteration of the second
\* loop, or its end.  os.MkdirAll fails when a directory of the name is a
\* file already, os.OpenFile with O_EXCL when the name exists, as a file
\* or as a directory; io.Copy writes at most the declared size and a byte.
UnzipExtract ==
    /\ pc = "extract"
    /\ IF unzip.i > Len(unzip.files)
       THEN UNCHANGED unzip /\ pc' = "unzipped"
       ELSE LET zf == unzip.files[unzip.i]
                IsPrefix(n, m) == Len(n) <= Len(m) /\ SubSeq(m, 1, Len(n)) = n
                clash == \E k \in 1..Len(unzip.written) :
                            LET w == unzip.files[unzip.written[k]].elems
                            IN  IsPrefix(w, zf.elems) \/ IsPrefix(zf.elems, w)
            IN  IF zf.elems = <<>> \/ zf.isDir
                THEN unzip' = [unzip EXCEPT !.i = @ + 1] /\ UNCHANGED pc
                ELSE IF clash
                THEN /\ unzip' = [unzip EXCEPT !.err = "file exists"]
                     /\ pc' = "unzipped"
                ELSE IF zf.exceeds
                THEN /\ unzip' = [unzip EXCEPT
                                    !.written = Append(@, unzip.i),
                                    !.err = "content too large"]
                     /\ pc' = "unzipped"
                ELSE /\ unzip' = [unzip EXCEPT !.written = Append(@, unzip.i),
                                               !.i = @ + 1]
                     /\ UNCHANGED pc
    /\ UNCHANGED <<baseFlag, releaseFlag, modPath, tags, err, baseVersion,
                   shouldCompare, oldPkgs, newPkgs, oldIndex, newIndex, r,
                   summary, exitStatus, envVars, checkouts, decimalIn,
                   digitsOut, differ>>

\* Unzip of every archive of at most MaxEntries entries, into an empty or
\* a non-empty directory: files a, A, a/b and ../a of every declared size,
\* the directory a/, the prefix itself, and a file outside the prefix.
SpecUnzip ==
    /\ LET Entry(elems, prefixed, isDir, declared, exceeds) ==
               [elems |-> elems, prefixed |-> prefixed, isDir |-> isDir,
                declared |-> declared, exceeds |-> exceeds]
           Entries ==
               {Entry(n, TRUE, FALSE, d, x) :
                    n \in {<<"a">>, <<"A">>, <<"a", "b">>, <<"..", "a">>},
                    d \in 1..MaxZipFile, x \in BOOLEAN}
               \cup {Entry(<<"a">>, TRUE, TRUE, 0, FALSE),
                     Entry(<<>>, TRUE, FALSE, 0, FALSE),
                     Entry(<<"a">>, FALSE, FALSE, 1, FALSE)}
       IN  InitCall("Unzip", {<<>>}, {<<>>},
                    {[nonEmpty |-> ne, files |-> fs, i |-> 0, foldPath |-> {},
                      size |-> 0, written |-> <<>>, err |-> ""] :
                        ne \in BOOLEAN,
                        fs \in UNION {[1..n -> Entries] : n \in 0..MaxEntries}})
    /\ [][UnzipOpen \/ UnzipCheck \/ UnzipExtract]_vars

(***************************************************************************)
(* part_000: the earliest runRelease, its package merge loop               *)
(***************************************************************************)
\* "Load packages from each version": packages.Load of the old and of the
\* new directory, each list sorted by PkgPath.
EarlyLoad ==
    /\ pc = "earliest"
    /\ \E op \in Snapshots(modPath, PolicyRelPaths),
          np \in Snapshots(modPath, PolicyRelPaths) :
          oldPkgs' = op /\ newPkgs' = np
    /\ oldIndex' = 0
    /\ newIndex' = 0
    /\ r' = ZeroReport
    /\ pc' = "earlyLoop"
    /\ UNCHANGED <<baseFlag, releaseFlag, modPath, tags, err, baseVersion,
                   shouldCompare, summary, exitStatus>>
    /\ UNCHANGED <<envVars, unitVars, checkouts>>

\* One iteration of "Compare each pair of packages", or the end of the loop
\* and r.Text.  The second condition compares oldIndex with len(newPkgs):
\* when they differ, oldPkgs[oldIndex] is read, also past the end of
\* oldPkgs, where the index expression panics.
EarlyLoop ==
    /\ pc = "earlyLoop"
    /\ LET nOld == Len(oldPkgs)
           nNew == Len(newPkgs)
           removed(pkg) ==
               [path |-> pkg.PkgPath,
                Changes |-> <<[Message |-> "package removed", Compatible |-> FALSE]>>]
           added(pkg) ==
               [path |-> pkg.PkgPath,
                Changes |-> <<[Message |-> "package added", Compatible |-> TRUE]>>]
           compared(oldPkg, newPkg) ==
               [path |-> oldPkg.PkgPath,
                Changes |-> apidiffChanges(oldPkg.Types, newPkg.Types)]
           first ==
               IF oldIndex >= nOld THEN FALSE
               ELSE IF newIndex = nNew THEN TRUE
               ELSE StrLess(oldPkgs[oldIndex + 1].PkgPath,
                            newPkgs[newIndex + 1].PkgPath)
           second ==
               IF newIndex >= nNew THEN "no"
               ELSE IF oldIndex = nNew THEN "yes"
               ELSE IF oldIndex >= nOld THEN "panic"
               ELSE IF StrLess(newPkgs[newIndex + 1].PkgPath,
                               oldPkgs[oldIndex + 1].PkgPath)
                    THEN "yes"
               ELSE "no"
           step(oi, ni, p) ==
               /\ oldIndex' = oi
               /\ newIndex' = ni
               /\ r' = [r EXCEPT !.packages = Append(@, p)]
               /\ UNCHANGED <<pc, exitStatus>>
       IN  IF ~(oldIndex < nOld \/ newIndex < nNew)
           THEN /\ pc' = "written"
                /\ UNCHANGED <<oldIndex, newIndex, r, exitStatus>>
           ELSE IF first
           THEN step(oldIndex + 1, newIndex, removed(oldPkgs[oldIndex + 1]))
           ELSE IF second = "yes"
           THEN step(oldIndex, newIndex + 1, added(newPkgs[newIndex + 1]))
           ELSE IF second = "panic"
           THEN /\ pc' = "panicked"
                /\ exitStatus' = 2
                /\ UNCHANGED <<oldIndex, newIndex, r>>
           ELSE step(oldIndex + 1, newIndex + 1,
                     compared(oldPkgs[oldIndex + 1], newPkgs[newIndex + 1]))
    /\ UNCHANGED <<baseFlag, releaseFlag, modPath, tags, err, baseVersion,
                   shouldCompare, oldPkgs, newPkgs, summary>>
    /\ UNCHANGED <<envVars, unitVars, checkouts>>

SpecEarly ==
    /\ InitCall("earliest", {<<>>}, {<<>>}, {<<>>})
    /\ [][EarlyLoad \/ EarlyLoop]_vars

(***************************************************************************)
(* Properties                                                              *)
(***************************************************************************)
\* makeReleaseReport has set the versions of the report.
Built == pc \in {"loop", "written", "done"}

\* makeReleaseReport has returned the report.
Returned == (pc = "loop" /\ ~loopCond) \/ pc \in {"written", "done"}

\* The value of a decimal string, and the decimal string of a number.
RECURSIVE NatOf(_)
NatOf(d) ==
    IF d = <<>> THEN 0
    ELSE 10 * NatOf(SubSeq(d, 1, Len(d) - 1)) + (d[Len(d)] - ch0)

RECURSIVE DecimalOf(_)
DecimalOf(n) ==
    IF n < 10 THEN <<ch0 + n>>
    ELSE DecimalOf(n \div 10) \o <<ch0 + (n % 10)>>

PlusOne(d) == DecimalOf(NatOf(d) + 1)

VersionOf(major, minor, patch) ==
    <<chV>> \o major \o <<chDot>> \o minor \o <<chDot>> \o patch

\* The version semantic versioning asks for after the version parsed as pv.
NextVersion(pv, compatible, incompatible) ==
    IF incompatible /\ pv.major # <<ch0>>
    THEN VersionOf(PlusOne(pv.major), <<ch0>>, <<ch0>>)
    ELSE IF compatible \/ incompatible
    THEN VersionOf(pv.major, PlusOne(pv.minor), <<ch0>>)
    ELSE VersionOf(pv.major, pv.minor, PlusOne(pv.patch))

\* suggestVersion names the next version after the base version parsed as pv.
SuggestsNext(rep, pv) ==
    pv.ok => suggestVersion(rep) = NextVersion(pv, rep.haveCompatibleChanges,
                                               rep.haveIncompatibleChanges)

\* C1: suggestVersion is a function of the (major, minor, patch) of the
\* base version and of the two change flags: patch + 1 without changes,
\* minor + 1 with compatible changes only, major + 1 with an incompatible
\* change under major >= 1, minor + 1 with one under major 0.
C1_SuggestVersion == Built => SuggestsNext(r, Parse(r.baseVersion))

\* The release major follows the suffix convention of the module path: no
\* suffix asks for v0 or v1, /vN or .vN for exactly vN.
SuffixRuleOf(sp, pvr) ==
    /\ sp.ok
    /\ pvr.ok
    /\ IF sp.pathMajor = <<>>
       THEN pvr.major \in {<<ch0>>, <<ch1>>}
       ELSE <<chV>> \o pvr.major = Tail(sp.pathMajor)

SuffixRule(rep) ==
    SuffixRuleOf(SplitPathVersion(rep.modulePath), Parse(rep.releaseVersion))

\* The rule of C2 for a report whose base version parses as pvb and whose
\* release version parses as pvr.
StableRule(rep, pvb, pvr) ==
    (~rep.haveErrors /\ SuffixRule(rep) /\ pvb.ok /\ pvb.major # <<ch0>>)
        => (validateVersion(rep) # "nil"
              <=> \/ rep.haveIncompatibleChanges
                  \/ (/\ rep.haveCompatibleChanges
                      /\ pvb.major = pvr.major
                      /\ pvb.minor = pvr.minor))

\* The rule of C3 for a report whose base version parses as pvb.
UnstableRule(rep, pvb) ==
    (~rep.haveErrors /\ SuffixRule(rep) /\ pvb.ok /\ pvb.major = <<ch0>>)
        => validateVersion(rep) = "nil"

C3_ValidateUnstable ==
    (Built /\ r.releaseVersion # <<>>) => UnstableRule(r, Parse(r.baseVersion))

\* A release after a v0 base with an incompatible and a compatible change.
C3_Witness ==
    /\ pc = "done"
    /\ r.baseVersion = v050
    /\ r.releaseVersion # <<>>
    /\ r.haveIncompatibleChanges
    /\ r.haveCompatibleChanges
    /\ validateVersion(r) = "nil"

\* C4: validateVersion fails whenever the release major does not follow the
\* suffix convention of the module path, whatever the base version and the
\* change flags.
C4_SuffixEnforced ==
    (Built /\ r.releaseVersion # <<>> /\ ~SuffixRule(r))
        => validateVersion(r) # "nil"

\* Release v2.0.0 of a module path without suffix, after a v0 base and
\* without changes: refused for the suffix alone.
C4_Witness ==
    /\ pc = "done"
    /\ r.modulePath = pathM
    /\ r.releaseVersion = v200
    /\ r.baseVersion = v050
    /\ ~r.haveErrors
    /\ ~r.haveCompatibleChanges
    /\ ~r.haveIncompatibleChanges
    /\ validateVersion(r) = "suffix required"

\* The changes of a report, each named by its package and its position.
AllChanges(rep) ==
    UNION {{<<k, j>> : j \in 1..Len(rep.packages[k].Changes)} :
              k \in 1..Len(rep.packages)}

\* C5: release v2.0.0 after base v1.2.3 with one incompatible change is
\* accepted exactly when the module path carries the suffix /v2.
C5_MajorBump ==
    (/\ Returned
     /\ r.baseVersion = v123
     /\ r.releaseVersion = v200
     /\ ~r.haveErrors
     /\ Cardinality(AllChanges(r)) = 1
     /\ r.haveIncompatibleChanges)
        => (validateVersion(r) = "nil"
              <=> SplitPathVersion(r.modulePath).pathMajor = B(<<"/", "v", "2">>))

\* What the result of isSuccessful is to be.
SuccessRuleOf(rep, pvb) ==
    IF rep.haveErrors \/ rep.diagnostics # <<>> THEN FALSE
    ELSE IF rep.releaseVersion # <<>> THEN validateVersion(rep) = "nil"
    ELSE ~rep.haveIncompatibleChanges \/ (pvb.ok /\ pvb.major = <<ch0>>)

SuccessRule(rep) == SuccessRuleOf(rep, Parse(rep.baseVersion))

C7_ErrorsFail ==
    \A k \in 1..Len(r.packages) :
        (r.packages[k].OldErrors # <<>> \/ r.packages[k].NewErrors # <<>>)
            => /\ r.haveErrors
               /\ ~isSuccessful(r)
               /\ (r.releaseVersion # <<>> => validateVersion(r) # "nil")

\* The package paths of a package list.
PathsOf(pkgs) == {pkgs[k].PkgPath : k \in 1..Len(pkgs)}

\* The positions of the PackageReports of a path.
ReportsOf(rep, path) == {k \in 1..Len(rep.packages) : rep.packages[k].Path = path}

HasErrors(pr) == pr.OldErrors # <<>> \/ pr.NewErrors # <<>>

\* C8 as stated: every PackageReport of a package with a load error in the
\* old or in the new version has an empty list of Changes.
C8_ErrorsNoChanges ==
    \A k \in 1..Len(r.packages) :
        HasErrors(r.packages[k]) => r.packages[k].Changes = <<>>

\* C8: a PackageReport of a package with a load error that is found in both
\* versions has no Changes (the packages are not compared); one of a
\* package found in one version only has at most the change that says so.
C8_ErrorsNoComparison ==
    \A k \in 1..Len(r.packages) :
        HasErrors(r.packages[k])
            => IF r.packages[k].Path \in PathsOf(oldPkgs) \cap PathsOf(newPkgs)
               THEN r.packages[k].Changes = <<>>
               ELSE \A j \in 1..Len(r.packages[k].Changes) :
                       r.packages[k].Changes[j].Message
                           \in {"package removed", "package added"}

\* A package that lost its symbol and does not type-check any more: its
\* PackageReport has the error and no change.
C8_Witness ==
    /\ Returned
    /\ \E k \in 1..Len(r.packages), i \in 1..Len(oldPkgs), j \in 1..Len(newPkgs) :
          /\ oldPkgs[i].PkgPath = r.packages[k].Path
          /\ newPkgs[j].PkgPath = r.packages[k].Path
          /\ oldPkgs[i].Types # {}
          /\ newPkgs[j].Errors # <<>>
          /\ r.packages[k].NewErrors = newPkgs[j].Errors
          /\ r.packages[k].Changes = <<>>

\* The packages of a list that are internal and have errors.
InternalWithErrors(pkgs) ==
    {k \in 1..Len(pkgs) : isInternal(pkgs[k].PkgPath, modPath) /\ pkgs[k].Errors # <<>>}

\* C9: an internal package contributes no Change, and a PackageReport with
\* its errors is added whenever it has any, be it found in the old version
\* only, in the new one only, or in both.
C9_InternalErrorsSurfaced ==
    Returned =>
        /\ \A k \in 1..Len(r.packages) :
              isInternal(r.packages[k].Path, modPath) => r.packages[k].Changes = <<>>
        /\ \A i \in InternalWithErrors(oldPkgs) :
              \E k \in ReportsOf(r, oldPkgs[i].PkgPath) :
                  r.packages[k].OldErrors = oldPkgs[i].Errors
        /\ \A j \in InternalWithErrors(newPkgs) :
              \E k \in ReportsOf(r, newPkgs[j].PkgPath) :
                  r.packages[k].NewErrors = newPkgs[j].Errors

\* The PackageReports are in strictly ascending order of path.
Ascending(rep) ==
    \A k \in 1..(Len(rep.packages) - 1) :
        StrLess(rep.packages[k].Path, rep.packages[k + 1].Path)

\* C10 as stated: exactly one PackageReport for every path of the old or
\* the new package list, in ascending order of path.
C10_OnePerPath ==
    Returned =>
        /\ \A k \in 1..Len(r.packages) :
              r.packages[k].Path \in PathsOf(oldPkgs) \cup PathsOf(newPkgs)
        /\ \A p \in PathsOf(oldPkgs) \cup PathsOf(newPkgs) :
              Cardinality(ReportsOf(r, p)) = 1
        /\ Ascending(r)

\* C10: at most one PackageReport for every path of the old or the new
\* package list and none for another path, exactly one for every path that
\* is not internal, in strictly ascending order of path.
C10_OnePerPublicPath ==
    Returned =>
        /\ \A k \in 1..Len(r.packages) :
              r.packages[k].Path \in PathsOf(oldPkgs) \cup PathsOf(newPkgs)
        /\ \A p \in PathsOf(oldPkgs) \cup PathsOf(newPkgs) :
              /\ Cardinality(ReportsOf(r, p)) <= 1
              /\ ~isInternal(p, modPath) => Cardinality(ReportsOf(r, p)) = 1
        /\ Ascending(r)

\* Three paths in the two versions, one of them internal and left out: two
\* PackageReports.
C10_Witness ==
    /\ Returned
    /\ Cardinality(PathsOf(oldPkgs) \cup PathsOf(newPkgs)) = 3
    /\ Len(r.packages) = 2
    /\ \E p \in PathsOf(oldPkgs) \cap PathsOf(newPkgs) : ~isInternal(p, modPath)

\* Some change of the PackageReport pr has Compatible = c.
HoldsChange(pr, c) == \E j \in 1..Len(pr.Changes) : pr.Changes[j].Compatible = c

\* Each change flag says whether some PackageReport of rep holds such a change.
FlagsMatch(rep) ==
    /\ rep.haveCompatibleChanges
          <=> \E k \in 1..Len(rep.packages) : HoldsChange(rep.packages[k], TRUE)
    /\ rep.haveIncompatibleChanges
          <=> \E k \in 1..Len(rep.packages) : HoldsChange(rep.packages[k], FALSE)

\* rep2 is rep with the PackageReport p added at the end, each flag the old
\* flag or what p holds.
AddedLast(rep, rep2, p) ==
    /\ rep2.packages = Append(rep.packages, p)
    /\ rep2.haveCompatibleChanges = (rep.haveCompatibleChanges \/ HoldsChange(p, TRUE))
    /\ rep2.haveIncompatibleChanges = (rep.haveIncompatibleChanges \/ HoldsChange(p, FALSE))

\* C11: after any sequence of addPackage calls each change flag is true iff
\* some added PackageReport holds such a change; a call appends its package
\* at the end of the list, sets the flags from the old flags and that
\* package alone, and never resets a flag.
C11_AddPackageFlags ==
    /\ FlagsMatch(r)
    /\ [][/\ r'.packages # <<>>
          /\ AddedLast(r, r', r'.packages[Len(r'.packages)])
          /\ FlagsMatch(r')]_vars

\* A package with a compatible change, then one without changes: the flag
\* of the first call is still set.
C11_Witness ==
    /\ pc = "addPackage"
    /\ Len(r.packages) = 2
    /\ HoldsChange(r.packages[1], TRUE)
    /\ r.packages[2].Changes = <<>>
    /\ r.haveCompatibleChanges
    /\ ~r.haveIncompatibleChanges

\* The paths of pkgs that are not internal and not paths of others.
PublicOnlyIn(pkgs, others) ==
    {p \in PathsOf(pkgs) \ PathsOf(others) : ~isInternal(p, modPath)}

\* The report has one PackageReport of path, and it holds the change c alone.
SoleChange(rep, path, c) ==
    /\ Cardinality(ReportsOf(rep, path)) = 1
    /\ \A k \in ReportsOf(rep, path) : rep.packages[k].Changes = <<c>>

\* C12: when a base version is compared, a package that is not internal and
\* found in the old version only has exactly one Change, "package removed",
\* incompatible; one found in the new version only has exactly one Change,
\* "package added", compatible.
C12_RemovedAdded ==
    (Returned /\ shouldCompare) =>
        /\ \A p \in PublicOnlyIn(oldPkgs, newPkgs) :
              SoleChange(r, p, [Message |-> "package removed", Compatible |-> FALSE])
        /\ \A p \in PublicOnlyIn(newPkgs, oldPkgs) :
              SoleChange(r, p, [Message |-> "package added", Compatible |-> TRUE])

\* A comparison in which one public package went away and another came.
C12_Witness ==
    /\ Returned
    /\ shouldCompare
    /\ PublicOnlyIn(oldPkgs, newPkgs) # {}
    /\ PublicOnlyIn(newPkgs, oldPkgs) # {}
    /\ Len(r.packages) = 2
    /\ r.haveCompatibleChanges
    /\ r.haveIncompatibleChanges

\* The comparison found an incompatible difference.
FoundIncompatible(rep) ==
    \E k \in 1..Len(rep.packages) : HoldsChange(rep.packages[k], FALSE)

\* gorelease does not succeed: isSuccessful is false and the exit status is
\* not 0 once the process has ended.
Fails(rep) ==
    /\ ~isSuccessful(rep)
    /\ pc \in {"done", "panicked"} => exitStatus # 0

SameSnapshot ==
    /\ shouldCompare
    /\ oldPkgs = newPkgs
    /\ \A k \in 1..Len(newPkgs) : newPkgs[k].Errors = <<>>

\* suggestVersion names the patch increment of the base version parsed as pv.
SuggestsPatch(rep, pv) ==
    /\ pv.ok
    /\ suggestVersion(rep) = VersionOf(pv.major, pv.minor, PlusOne(pv.patch))

\* C14: comparing a snapshot against itself, the report has no change (no
\* "package added" or "package removed" either), both change flags stay
\* false, and the suggestion is the patch increment of the base version.
C14_Reflexive ==
    (Built /\ SameSnapshot) =>
        /\ AllChanges(r) = {}
        /\ ~r.haveCompatibleChanges
        /\ ~r.haveIncompatibleChanges
        /\ SuggestsPatch(r, Parse(r.baseVersion))

\* Every byte of d is the digit 9.
AllNines(d) == \A i \in 1..Len(d) : d[i] = ch9

\* C15: incDecimal of a non-empty string of decimal digits is a string of
\* decimal digits whose value is the value of the argument plus one; it is
\* one digit longer than the argument when every digit of the argument is
\* 9, and as long as the argument otherwise.
C15_IncDecimal ==
    pc = "returned" =>
        /\ \A i \in 1..Len(digitsOut) : IsDigit(digitsOut[i])
        /\ NatOf(digitsOut) = NatOf(decimalIn) + 1
        /\ Len(digitsOut) = Len(decimalIn) + (IF AllNines(decimalIn) THEN 1 ELSE 0)

\* "99" gives "100".
C15_Witness ==
    /\ pc = "returned"
    /\ decimalIn = <<ch9, ch9>>
    /\ digitsOut = <<ch1, ch0, ch0>>

\* v is a canonical semantic version: vMAJOR.MINOR.PATCH[-PRERELEASE], as
\* parsed in pv.
IsCanonical(pv) == pv.ok /\ pv.short = <<>> /\ pv.build = <<>>

\* The last element of a module path is a major suffix that is refused:
\* "v" and digits or dots, being v0 or v1, or with a leading zero, or with
\* a dot.
RefusedSuffix(last) ==
    /\ Len(last) >= 2
    /\ last[1] = chV
    /\ \A i \in 2..Len(last) : IsDigit(last[i]) \/ last[i] = chDot
    /\ \/ last = <<chV, ch1>>
       \/ last[2] = ch0
       \/ \E i \in 2..Len(last) : last[i] = chDot

\* One of the input errors of C16.
InputFault ==
    \/ baseFlag # <<>> /\ ~IsCanonical(Parse(baseFlag))
    \/ baseFlag # <<>> /\ releaseFlag # <<>> /\ Compare(baseFlag, releaseFlag) >= 0
    \/ ~goModFound
    \/ pendingChanges
    \/ HasPrefix(modPath, <<chSlash>>)
    \/ LastSlash(modPath) > 0 /\ RefusedSuffix(PathBase(modPath))

\* C16: when -base is not a canonical semantic version, or is equal to or
\* newer than -version, when no go.mod is found, when the working tree has
\* uncommitted changes, or when the module path is absolute or ends in a
\* major suffix v0, v1, with a leading zero or with dots, makeReleaseReport
\* returns an error and the zero report, and has neither checked out nor
\* loaded anything.
C16_InputErrorsAbort ==
    (pc # "start" /\ InputFault) =>
        /\ pc = "failed"
        /\ err # ""
        /\ r = ZeroReport
        /\ checkouts = <<>>
        /\ oldPkgs = <<>>
        /\ newPkgs = <<>>

\* Good flags and a good module path in a working tree with uncommitted
\* changes: refused for these.
C16_Witness ==
    /\ pc = "failed"
    /\ baseFlag = v123
    /\ releaseFlag = v130
    /\ modPath = pathM
    /\ goModFound
    /\ pendingChanges
    /\ err = "there are uncommitted changes"
    /\ checkouts = <<>>

\* The version parsed as pv looks like a first version: vN.0.0, v0.1.0 or
\* v0.0.1.
LooksFirst(pv) ==
    /\ pv.ok
    /\ pv.short = <<>> /\ pv.prerelease = <<>> /\ pv.build = <<>>
    /\ \/ pv.minor = <<ch0>> /\ pv.patch = <<ch0>>
       \/ pv.major = <<ch0>> /\ pv.minor = <<ch1>> /\ pv.patch = <<ch0>>
       \/ pv.major = <<ch0>> /\ pv.minor = <<ch0>> /\ pv.patch = <<ch1>>

\* The report rep is built from the packages pkgs of HEAD alone: one
\* checkout, no old package, no Change, both change flags false, and in each
\* PackageReport nothing but the load errors of the new package of its path.
BuiltWithoutComparison(rep, pkgs) ==
    /\ Len(checkouts) = 1
    /\ checkouts[1].rev = "HEAD"
    /\ oldPkgs = <<>>
    /\ AllChanges(rep) = {}
    /\ ~rep.haveCompatibleChanges
    /\ ~rep.haveIncompatibleChanges
    /\ \A k \in 1..Len(rep.packages) :
          /\ rep.packages[k].OldErrors = <<>>
          /\ \E j \in 1..Len(pkgs) :
                /\ pkgs[j].PkgPath = rep.packages[k].Path
                /\ pkgs[j].Errors = rep.packages[k].NewErrors

\* C17: without -base and without a tag to detect, makeReleaseReport fails
\* with "could not detect base version" unless the release version looks
\* like a first version; then it returns a report built without comparison.
C17_NoBaseDetected ==
    (/\ pc \notin {"start", "detect"}
     /\ goModFound /\ ~pendingChanges
     /\ baseFlag = <<>> /\ tags = {}) =>
        IF LooksFirst(Parse(releaseFlag))
        THEN /\ pc \notin {"failed", "panicked"}
             /\ ~shouldCompare
             /\ Built => BuiltWithoutComparison(r, newPkgs)
             /\ Returned =>
                   \A j \in 1..Len(newPkgs) :
                       newPkgs[j].Errors # <<>> => ReportsOf(r, newPkgs[j].PkgPath) # {}
        ELSE /\ pc = "failed"
             /\ err = "could not detect base version"

\* Load errors were found: some PackageReport of rep holds errors.
ErrorsFound(rep) == \E k \in 1..Len(rep.packages) : HasErrors(rep.packages[k])

\* The summary C18 asks for, by the first case that applies; when a release
\* version was requested, the verdict of its validation.
SummaryFor(rep, errorsFound) ==
    IF rep.diagnostics # <<>> THEN {"diagnostics"}
    ELSE IF rep.releaseVersion # <<>>
         THEN (IF validateVersion(rep) = "nil" THEN {"valid"} ELSE {"invalid"})
    ELSE IF errorsFound THEN {"errors detected"}
    ELSE IF rep.haveIncompatibleChanges /\ Major(rep.baseVersion) # <<chV, ch0>>
         THEN {"incompatible, none suggested"}
    ELSE {"suggested"}

\* The summary written follows the order of C18, and no version is
\* suggested or declared valid with errors or diagnostics.
SummaryRule(rep, errorsFound) ==
    /\ summary.kind \in SummaryFor(rep, errorsFound)
    /\ summary.kind \in {"suggested", "valid"}
          => (~errorsFound /\ rep.diagnostics = <<>>)

\* C18: report.Text writes one summary: the diagnostics if there are any;
\* else the verdict on the release version if one was requested; else that
\* no version is suggested if load errors were found; else that none is
\* suggested if there are incompatible changes under a base of major >= 1;
\* else the suggested version.  No version is suggested or declared valid
\* when errors or diagnostics exist.
C18_SummaryOrder ==
    pc \in {"written", "done"} => SummaryRule(r, ErrorsFound(r))

\* The diagnostic d is among the diagnostics of rep.
Diagnosed(rep, d) == \E i \in 1..Len(rep.diagnostics) : rep.diagnostics[i] = d

\* The diagnostics of rep are those C19 gives for a load of HEAD that did e.
DiagnosticsFor(rep, e) ==
    /\ Diagnosed(rep, "go.mod is not tidy") <=> e.goModChanged
    /\ Diagnosed(rep, "go.sum is not committed")
          <=> (~e.haveOrigGoSum /\ e.haveNewGoSum)
    /\ Diagnosed(rep, "go.sum is missing one or more hashes")
          <=> (e.haveOrigGoSum /\ e.goSumChanged /\ ~e.goModChanged)

\* A diagnostic makes isSuccessful false, the exit status 1, and is what
\* the summary holds.
DiagnosticsFail(rep) ==
    rep.diagnostics # <<>> =>
        /\ ~isSuccessful(rep)
        /\ pc \in {"written", "done"} => summary.kind = "diagnostics"
        /\ pc = "done" => exitStatus = 1

\* C19: diagnostics come from the load of HEAD only, never from the load of
\* the base version: "go.mod is not tidy" iff loading changed go.mod,
\* "go.sum is not committed" iff loading created a go.sum that was absent,
\* "go.sum is missing one or more hashes" iff go.sum was there, changed, and
\* go.mod did not change; a diagnostic makes isSuccessful false and takes the
\* place of the verdict in the summary.
C19_Diagnostics ==
    Built =>
        /\ checkouts[1].rev = "HEAD"
        /\ r.diagnostics = checkouts[1].diagnostics
        /\ \A i \in 2..Len(checkouts) :
              checkouts[i].rev = "base" /\ checkouts[i].diagnostics = <<>>
        /\ DiagnosticsFor(r, checkouts[1].effects)
        /\ DiagnosticsFail(r)

\* Loading the base version changed go.mod and go.sum, loading HEAD added
\* hashes to go.sum: the one diagnostic is that of HEAD, exit status 1.
C19_Witness ==
    /\ pc = "done"
    /\ Len(checkouts) = 2
    /\ checkouts[2].effects.goModChanged
    /\ checkouts[2].effects.goSumChanged
    /\ ~checkouts[1].effects.goModChanged
    /\ r.diagnostics = <<"go.sum is missing one or more hashes">>
    /\ summary.kind = "diagnostics"
    /\ exitStatus = 1
\* The changes between the two versions of the types of d.
DeclaredChanges(d) ==
    IF d.how = "kind" THEN <<[Message |-> "changed", Compatible |-> FALSE]>>
    ELSE IF d.how = "removed"
      THEN <<[Message |-> "removed", Compatible |-> FALSE]>>
    ELSE IF d.how = "added" THEN <<[Message |-> "added", Compatible |-> TRUE]>>
    ELSE <<>>

\* The deepest recursion of a comparison of d: a named type, its struct and
\* the pointer field for every type on the cycle, and the re-entered pair.
DepthOf(d) == Len(d.stack)
CycleDepth(d) == (3 * d.n) + 1

\* C20: the comparison of a struct type that reaches itself through a
\* pointer field of a named type returns, and its recursion never gets
\* deeper than one pass around the cycle, whether the two versions are
\* identical or a field changed; the pair met again while it is under
\* comparison counts as equal: it is left at once, once, and the changes
\* found are exactly the ones between the two versions.
C20_CycleSafety ==
    /\ <>(pc = "compared")
    /\ [](DepthOf(differ) <= CycleDepth(differ))
    /\ [](pc = "compared" =>
            /\ differ.reentered = 1
            /\ differ.visiting = {}
            /\ differ.changes = DeclaredChanges(differ))

\* Witness of C20: type T struct { next *T; val int } compared with
\* type T struct { next *T; val string }: the comparison has returned, has
\* met the pair (T, T) again once and reports the changed field.
C20_Witness ==
    /\ pc = "compared"
    /\ differ.n = 1
    /\ differ.how = "kind"
    /\ differ.reentered = 1
    /\ differ.changes = <<[Message |-> "changed", Compatible |-> FALSE]>>

\* What splitVersionNumbers is to return for vers, pv its parse as a
\* semantic version: the three numbers of a full version, an error for a
\* string without the "v", and in no case a panic.
SplitsAs(vers, s, pv) ==
    /\ ~s.panic
    /\ (pv.ok /\ pv.short = <<>>) =>
          /\ ~s.err
          /\ s.major = pv.major
          /\ s.minor = pv.minor
          /\ s.patch = pv.patch
    /\ ~HasPrefix(vers, <<chV>>) => s.err

\* C21: splitVersionNumbers returns the major, minor and patch number of
\* every version vMAJOR.MINOR.PATCH, with or without a prerelease and
\* build metadata, returns an error for a string without the "v" prefix,
\* and never panics; stated for the versions given with -base and -version.
C21_SplitVersionNumbers ==
    \A vers \in {baseFlag, releaseFlag} :
        SplitsAs(vers, splitVersionNumbers(vers), Parse(vers))

\* The last element of path when it follows a '/' and is "v" followed by
\* one or more digits or dots, else "".
MajorSuffixOf(path, last) ==
    IF /\ LastSlash(path) > 0
       /\ Len(last) >= 2
       /\ last[1] = chV
       /\ \A i \in 2..Len(last) : IsDigit(last[i]) \/ last[i] = chDot
    THEN last
    ELSE <<>>

\* C22: dirMajorSuffix never reads outside its argument, and returns the
\* last path element when that is "v" followed by digits or dots after a
\* '/', and "" for every other path, the empty path and the paths made of
\* digits and dots only included; stated for the module path of go.mod,
\* on which checkModPath calls it.
C22_DirMajorSuffix ==
    /\ dirMajorSuffix(modPath) # Panic
    /\ dirMajorSuffix(modPath) = MajorSuffixOf(modPath, PathBase(modPath))

\* The module path is the path of the repository root, the subdirectory
\* of the module and the major suffix: in a major version directory, the
\* directory is part of dir and not of the tag prefix.
PrefixRule(path, dir, major, res) ==
    /\ res.err = ""
    /\ IF major = <<>>
       THEN /\ res.tagPrefix = dir \o <<chSlash>>
            /\ path = res.codeRoot \o <<chSlash>> \o dir
       ELSE /\ path = res.codeRoot \o <<chSlash>> \o res.tagPrefix \o Tail(major)
            /\ res.tagPrefix \in {dir \o <<chSlash>>,
                                  Slice(dir, 0, Len(dir) - Len(Tail(major)))}

\* What makeReleaseReport is to derive for the module path with the parts
\* sp, declared in dir: res is what it derived.
SubdirRule(path, dir, sp, res) ==
    IF dir = <<>>
    THEN res.err = "" /\ res.codeRoot = sp.prefix /\ res.tagPrefix = <<>>
    ELSE IF HasPrefix(path, strGopkgIn) THEN res.err \notin {"", "panic"}
    ELSE IF \/ HasSuffix(path, <<chSlash>> \o dir)
            \/ (sp.pathMajor # <<>> /\ HasSuffix(path, <<chSlash>> \o dir \o sp.pathMajor))
         THEN PrefixRule(path, dir, sp.pathMajor, res)
    ELSE res.err \notin {"", "panic"}

\* The run got to the derivation of codeRoot and tagPrefix and what it
\* did agrees with res.
DerivedAs(res) ==
    IF res.err # ""
    THEN pc = "failed" /\ err = res.err /\ r = ZeroReport /\ checkouts = <<>>
    ELSE /\ pc # "panicked"
         /\ Built => r.tagPrefix = res.tagPrefix

\* C23: for a module declared in a subdirectory of the repository,
\* makeReleaseReport derives codeRoot as the module path without the
\* subdirectory and the major suffix, and tagPrefix as the subdirectory
\* with a '/' and without the major version directory; at the repository
\* root tagPrefix is ""; a module path that ends with neither the
\* subdirectory nor the subdirectory and the major suffix, and a gopkg.in
\* path in a subdirectory, end the run with an error; no slice panics.
C23_TagPrefix ==
    (pc # "start" /\ goModFound /\ ~pendingChanges) =>
        /\ SubdirRule(modPath, codeDir, SplitPathVersion(modPath),
                      subdirPrefix(modPath, codeDir, SplitPathVersion(modPath)))
        /\ DerivedAs(subdirPrefix(modPath, codeDir, SplitPathVersion(modPath)))

\* Witness of C23: module a.io/m/v2 declared in m/v2: the report is built
\* with the tag prefix "m/", for the repository root a.io.
C23_Witness ==
    /\ Built
    /\ modPath = pathMv2
    /\ codeDir = B(<<"m", "/", "v", "2">>)
    /\ r.tagPrefix = B(<<"m", "/">>)
    /\ subdirPrefix(modPath, codeDir, SplitPathVersion(modPath)).codeRoot
         = B(<<"a", ".", "i", "o">>)

\* The declared sizes of the file entries of an archive, together.
RECURSIVE DeclaredSize(_)
DeclaredSize(files) ==
    IF files = <<>> THEN 0
    ELSE (IF Head(files).elems = <<>> \/ Head(files).isDir THEN 0
          ELSE Head(files).declared) + DeclaredSize(Tail(files))

\* The names of the files of an archive and of their directories.
NamesOf(files) ==
    UNION {{SubSeq(files[k].elems, 1, n) : n \in 1..Len(files[k].elems)} :
              k \in {j \in 1..Len(files) : ~files[j].isDir}}

SameButCase(n, m) ==
    /\ n # m
    /\ Len(n) = Len(m)
    /\ \A k \in 1..Len(n) : n[k] = m[k] \/ {n[k], m[k]} = {"a", "A"}

\* Every entry of the archive passes validation: its name is under the
\* prefix and, for a file, a valid and clean path that differs from every
\* other file or directory name of the archive in more than case, and the
\* declared sizes are within the limit together.
ValidArchive(files) ==
    /\ \A k \in 1..Len(files) :
          /\ files[k].prefixed
          /\ (files[k].elems # <<>> /\ ~files[k].isDir) =>
                \A j \in 1..Len(files[k].elems) : files[k].elems[j] # ".."
    /\ \A n \in NamesOf(files), m \in NamesOf(files) : ~SameButCase(n, m)
    /\ DeclaredSize(files) <= MaxZipFile

\* C24: Unzip writes no file into a target directory that contains files,
\* and none of an archive with an entry that fails validation (a name
\* outside the prefix, an invalid or unclean file path, names that collide
\* but for case, declared sizes over the limit): all entries are validated
\* before the first file is extracted, and Unzip returns an error; a file
\* whose content is longer than its declared size makes Unzip fail as soon
\* as it has been extracted.
C24_UnzipValidates ==
    /\ (unzip.nonEmpty \/ ~ValidArchive(unzip.files)) =>
          /\ unzip.written = <<>>
          /\ pc = "unzipped" => unzip.err # ""
    /\ (\E k \in 1..Len(unzip.written) : unzip.files[unzip.written[k]].exceeds) =>
          /\ pc = "unzipped"
          /\ unzip.err # ""

\* Witness of C24: an archive of the file a and then the file ../a, into
\* an empty directory: Unzip has failed and neither file is written.
C24_Witness ==
    /\ pc = "unzipped"
    /\ ~unzip.nonEmpty
    /\ Len(unzip.files) = 2
    /\ unzip.files[1].elems = <<"a">>
    /\ unzip.files[1].prefixed /\ ~unzip.files[1].isDir
    /\ unzip.files[2].elems = <<"..", "a">>
    /\ unzip.err = "malformed file path"
    /\ unzip.written = <<>>

\* The packages the merge loop has not consumed yet.
Remaining(oi, ni) == (Len(oldPkgs) - oi) + (Len(newPkgs) - ni)

\* Both lists have a package left and the two have the same path.
SamePackage(oi, ni) ==
    IF oi < Len(oldPkgs) /\ ni < Len(newPkgs)
    THEN oldPkgs[oi + 1].PkgPath = newPkgs[ni + 1].PkgPath
    ELSE FALSE

\* The indices are within the lists, and the last branch of the loop body
\* is taken exactly for two packages of the same path.
MergeInRange ==
    pc = "loop" =>
        /\ oldIndex \in 0..Len(oldPkgs)
        /\ newIndex \in 0..Len(newPkgs)
        /\ loopCond => ((~oldFirst /\ ~newFirst) <=> SamePackage(oldIndex, newIndex))

\* An iteration consumes the next old package, the next new package, or
\* both when they are the same package.
MergeStep ==
    (pc = "loop" /\ pc' = "loop") =>
        /\ Remaining(oldIndex', newIndex') < Remaining(oldIndex, newIndex)
        /\ IF SamePackage(oldIndex, newIndex)
           THEN oldIndex' = oldIndex + 1 /\ newIndex' = newIndex + 1
           ELSE \/ oldIndex' = oldIndex + 1 /\ newIndex' = newIndex
                \/ oldIndex' = oldIndex /\ newIndex' = newIndex + 1

\* C25: on two lists of packages sorted by path, every iteration of the
\* merge loop of makeReleaseReport consumes one package of one list, or one
\* of each when their paths are equal and only then, so the loop ends
\* after at most len(oldPkgs) + len(newPkgs) iterations; the indices never
\* pass the end of their list, and the loop is left when both lists are
\* consumed.
C25_MergeLoop ==
    /\ [](MergeInRange)
    /\ [](pc \in {"written", "done"} =>
            oldIndex = Len(oldPkgs) /\ newIndex = Len(newPkgs))
    /\ [][MergeStep]_vars

\* Witness of C25: the loop is left after two old and two new packages, of
\* which the first ones differ.
C25_Witness ==
    /\ pc = "written"
    /\ Len(oldPkgs) = 2
    /\ Len(newPkgs) = 2
    /\ oldIndex = 2
    /\ newIndex = 2
    /\ oldPkgs[1].PkgPath # newPkgs[1].PkgPath

\* The base version, given or detected, is not older than -version.
BaseNotOlder ==
    /\ baseVersion # <<>>
    /\ releaseFlag # <<>>
    /\ Compare(baseVersion, releaseFlag) >= 0

\* C26: a report with a base version and a release version has the base
\* version strictly older than the release version, whether the base
\* version was given with -base or detected from the tags; with a base
\* version that is not older, makeReleaseReport returns an error and no
\* report.
C26_BaseOlder ==
    /\ (Built /\ r.baseVersion # <<>> /\ r.releaseVersion # <<>>) =>
           Compare(r.baseVersion, r.releaseVersion) < 0
    /\ BaseNotOlder =>
           /\ pc \in {"start", "failed"}
           /\ r = ZeroReport
           /\ checkouts = <<>>
           /\ pc = "failed" => (err # "" /\ exitStatus = 1)

\* Witness of C26: the report of a run without -base, with the base version
\* v0.5.0 detected and -version=v0.6.0.
C26_Witness ==
    /\ Built
    /\ baseFlag = <<>>
    /\ r.baseVersion = v050
    /\ r.releaseVersion = v060

\* The branches of report.Text that do not call suggestVersion.
NoSuggestion == {"diagnostics", "invalid", "valid"}

\* C27: a report with an empty base version has a non-empty release
\* version, so report.Text writes the diagnostics or the validation of the
\* release version for it and never calls suggestVersion, which panics on
\* an empty base version.
C27_EmptyBaseNotSuggested ==
    /\ (Built /\ r.baseVersion = <<>>) =>
          /\ r.releaseVersion # <<>>
          /\ Text(r).kind \in NoSuggestion
          /\ pc \in {"written", "done"} => summary.kind \in NoSuggestion
    /\ summary.kind = "panic" => r.baseVersion # <<>>

\* Witness of C27: report.Text has written the validation of -version=v1.0.0
\* for a report without base version.
C27_Witness ==
    /\ pc = "written"
    /\ r.baseVersion = <<>>
    /\ r.releaseVersion = v100
    /\ summary.kind = "valid"

\* C28: a report with a non-empty base version rests on a comparison: the
\* old snapshot was loaded at the base version after HEAD and compared
\* (shouldCompare was true), also when the base version was detected from
\* the tags and the release version looks like a first version.
C28_BaseCompared ==
    (Built /\ r.baseVersion # <<>>) =>
        /\ shouldCompare
        /\ Len(checkouts) = 2
        /\ checkouts[2].rev = "base"

\* The summaries that state that the release version is valid, or that
\* suggest a version.
Affirmative == {"valid", "suggested"}

\* C29: the summary report.Text writes for a report of makeReleaseReport is
\* affirmative exactly when report.isSuccessful returns true for it, so
\* the summary printed and the exit status agree.
C29_VerdictAgrees ==
    /\ (Returned /\ Text(r).kind # "panic") =>
           (Text(r).kind \in Affirmative <=> isSuccessful(r))
    /\ pc \in {"written", "done"} =>
           (summary.kind \in Affirmative <=> isSuccessful(r))
    /\ pc = "done" => (summary.kind \in Affirmative <=> exitStatus = 0)

\* Witness of C29: a version was suggested for a report with compatible
\* changes and the exit status is 0.
C29_Witness ==
    /\ pc = "done"
    /\ summary.kind = "suggested"
    /\ r.haveCompatibleChanges
    /\ exitStatus = 0

\* C30: the package merge loop of the earliest runRelease never reads
\* oldPkgs or newPkgs out of range, whatever the lengths of the two sorted
\* lists, also when oldPkgs is exhausted while new packages remain, and it
\* ends with every package of both lists visited, one report for each old
\* package and for each new package without counterpart.
C30_EarlyMerge ==
    /\ pc # "panicked"
    /\ pc = "earlyLoop" =>
          /\ oldIndex \in 0..Len(oldPkgs)
          /\ newIndex \in 0..Len(newPkgs)
    /\ pc = "written" =>
          /\ oldIndex = Len(oldPkgs)
          /\ newIndex = Len(newPkgs)
          /\ Len(r.packages) =
                Cardinality({oldPkgs[k].PkgPath : k \in 1..Len(oldPkgs)}
                            \cup {newPkgs[k].PkgPath : k \in 1..Len(newPkgs)})
====
